---- MODULE Spec2Model ----
(***************************************************************************)
(* Prompt-engineering rule engine of ai-validation-mcp-server.             *)
(*                                                                         *)
(* Two implementations of the engine are modelled, each as the sequence    *)
(* of steps of its apply_engineering_rules:                                *)
(*   - the MCP engine,  src/ai_validation_mcp.py (actions Mcp...)          *)
(*   - the HTTP engine, src/mcp_server.py        (actions Http...)         *)
(*                                                                         *)
(* Text is a sequence of characters, each a one-character string ("\n",    *)
(* "\t" for newline and tab; an emoji of the source is one character,      *)
(* written by its code point, "U+1F50D").  Python's str.lower, str.split,  *)
(* str.count and the `in` substring test are operators on such sequences.  *)
(*                                                                         *)
(* Floats: optimization_score is kept in hundredths (0.3 is 30), and       *)
(* clarity_score as the reduced fraction num/den; the comparisons of the   *)
(* source against 0.5 and 0.7 are exact on such fractions.                 *)
(***************************************************************************)
EXTENDS Integers, Sequences, FiniteSets, TLC

\* ------------------------------------------------------------------------
\* Python values and built-ins
\* ------------------------------------------------------------------------

\* Python's None, and a value that is not None
None ==
    [kind |-> "None"]

Some(v) ==
    [kind |-> "value", val |-> v]

\* dict.get(key, default)
DictGet(d, key, default) ==
    IF key \in DOMAIN d THEN d[key] ELSE default

\* the empty dict {}
EmptyDict ==
    [k \in {} |-> None]

\* `x in list`
InList(x, list) ==
    \E i \in 1..Len(list) : list[i] = x

\* str.lower() on one character (ASCII letters; every other character is kept)
UpperToLower ==
    ("A" :> "a") @@ ("B" :> "b") @@ ("C" :> "c") @@ ("D" :> "d") @@ ("E" :> "e") @@
    ("F" :> "f") @@ ("G" :> "g") @@ ("H" :> "h") @@ ("I" :> "i") @@ ("J" :> "j") @@
    ("K" :> "k") @@ ("L" :> "l") @@ ("M" :> "m") @@ ("N" :> "n") @@ ("O" :> "o") @@
    ("P" :> "p") @@ ("Q" :> "q") @@ ("R" :> "r") @@ ("S" :> "s") @@ ("T" :> "t") @@
    ("U" :> "u") @@ ("V" :> "v") @@ ("W" :> "w") @@ ("X" :> "x") @@ ("Y" :> "y") @@
    ("Z" :> "z")

LowerChar(c) ==
    IF c \in DOMAIN UpperToLower THEN UpperToLower[c] ELSE c

\* str.lower()
Lower(s) ==
    [i \in 1..Len(s) |-> LowerChar(s[i])]

\* the characters str.split() treats as separators
Whitespace ==
    {" ", "\n", "\t", "\r", "\f"}

\* str.split(): the maximal runs of non-whitespace characters, in order
Split(s) ==
    LET n            == Len(s)
        positions    == [ i \in 1..n |-> i ]
        RunStarts(i) == s[i] \notin Whitespace /\ (i = 1 \/ s[i - 1] \in Whitespace)
        RunEnds(i)   == s[i] \notin Whitespace /\ (i = n \/ s[i + 1] \in Whitespace)
        starts       == SelectSeq(positions, RunStarts)
        ends         == SelectSeq(positions, RunEnds)
    IN  [ k \in 1..Len(starts) |-> SubSeq(s, starts[k], ends[k]) ]

\* str.count(c) for a one-character c
Count(s, c) ==
    Cardinality({i \in 1..Len(s) : s[i] = c})

\* `sub in s` for strings
Contains(sub, s) ==
    \E i \in 0..(Len(s) - Len(sub)) : \A j \in 1..Len(sub) : s[i + j] = sub[j]

\* any(word in s for word in words)
AnyIn(words, s) ==
    \E k \in 1..Len(words) : Contains(words[k], s)

\* variant: `if few_shot_examples is not None:`, an empty string counts as found
TruthyNotNone(v) ==
    v.kind = "value"

\* truth value of a str-or-None (`if few_shot_examples:`)
Truthy(v) ==
    v.kind = "value" /\ v.val # <<>>

Min(a, b) ==
    IF a <= b THEN a ELSE b

Max(a, b) ==
    IF a >= b THEN a ELSE b

RECURSIVE Gcd(_, _)
Gcd(a, b) ==
    IF b = 0 THEN a ELSE Gcd(b, a % b)

\* the float n / d of two small naturals (d > 0), as a reduced fraction
Ratio(n, d) ==
    LET g == Gcd(n, d) IN [num |-> n \div g, den |-> d \div g]

\* r < a/b for a fraction r
RatioLess(r, a, b) ==
    r.num * b < a * r.den

\* ------------------------------------------------------------------------
\* Text constants of the source
\* ------------------------------------------------------------------------

\* src/ai_validation_mcp.py:36, src/mcp_server.py:190  ['analyze', 'create', 'explain', 'generate', 'write', 'help']
clear_task_words ==
    << <<"a","n","a","l","y","z","e">>,
       <<"c","r","e","a","t","e">>,
       <<"e","x","p","l","a","i","n">>,
       <<"g","e","n","e","r","a","t","e">>,
       <<"w","r","i","t","e">>,
       <<"h","e","l","p">> >>

\* src/ai_validation_mcp.py:38, src/mcp_server.py:192  ['example', 'for instance']
example_words ==
    << <<"e","x","a","m","p","l","e">>,
       <<"f","o","r"," ","i","n","s","t","a","n","c","e">> >>

\* src/ai_validation_mcp.py:39, src/mcp_server.py:193  ['must', 'should', 'requirement', 'constraint', 'limit']
constraint_words ==
    << <<"m","u","s","t">>,
       <<"s","h","o","u","l","d">>,
       <<"r","e","q","u","i","r","e","m","e","n","t">>,
       <<"c","o","n","s","t","r","a","i","n","t">>,
       <<"l","i","m","i","t">> >>

\* src/ai_validation_mcp.py:41, src/mcp_server.py:195  ['why', 'how', 'explain', 'analyze', 'compare']
reasoning_words ==
    << <<"w","h","y">>,
       <<"h","o","w">>,
       <<"e","x","p","l","a","i","n">>,
       <<"a","n","a","l","y","z","e">>,
       <<"c","o","m","p","a","r","e">> >>

\* src/ai_validation_mcp.py:43, src/mcp_server.py:197  ['code', 'technical', 'programming', 'engineering', 'scientific', 'medical', 'legal']
expertise_words ==
    << <<"c","o","d","e">>,
       <<"t","e","c","h","n","i","c","a","l">>,
       <<"p","r","o","g","r","a","m","m","i","n","g">>,
       <<"e","n","g","i","n","e","e","r","i","n","g">>,
       <<"s","c","i","e","n","t","i","f","i","c">>,
       <<"m","e","d","i","c","a","l">>,
       <<"l","e","g","a","l">> >>

\* src/ai_validation_mcp.py:51, src/mcp_server.py:206  ['code', 'programming']
few_shot_code_words ==
    << <<"c","o","d","e">>,
       <<"p","r","o","g","r","a","m","m","i","n","g">> >>

\* src/ai_validation_mcp.py:60, src/mcp_server.py:215  ['write', 'content']
few_shot_write_words ==
    << <<"w","r","i","t","e">>,
       <<"c","o","n","t","e","n","t">> >>

\* src/ai_validation_mcp.py:75, src/mcp_server.py:231  ['code', 'programming', 'software', 'debug']
software_words ==
    << <<"c","o","d","e">>,
       <<"p","r","o","g","r","a","m","m","i","n","g">>,
       <<"s","o","f","t","w","a","r","e">>,
       <<"d","e","b","u","g">> >>

\* src/ai_validation_mcp.py:77, src/mcp_server.py:233  ['write', 'content', 'marketing', 'copy']
copywriter_words ==
    << <<"w","r","i","t","e">>,
       <<"c","o","n","t","e","n","t">>,
       <<"m","a","r","k","e","t","i","n","g">>,
       <<"c","o","p","y">> >>

\* src/ai_validation_mcp.py:79, src/mcp_server.py:235  ['analyze', 'data', 'research']
analyst_words ==
    << <<"a","n","a","l","y","z","e">>,
       <<"d","a","t","a">>,
       <<"r","e","s","e","a","r","c","h">> >>

\* src/ai_validation_mcp.py:81, src/mcp_server.py:237  ['design', 'ui', 'ux', 'interface']
designer_words ==
    << <<"d","e","s","i","g","n">>,
       <<"u","i">>,
       <<"u","x">>,
       <<"i","n","t","e","r","f","a","c","e">> >>

\* src/ai_validation_mcp.py:83, src/mcp_server.py:239  ['business', 'strategy', 'plan']
business_words ==
    << <<"b","u","s","i","n","e","s","s">>,
       <<"s","t","r","a","t","e","g","y">>,
       <<"p","l","a","n">> >>

\* src/ai_validation_mcp.py:92, src/mcp_server.py:249  'gpt'
kw_gpt ==
    <<"g","p","t">>

\* src/ai_validation_mcp.py:94, src/mcp_server.py:251  'claude'
kw_claude ==
    <<"c","l","a","u","d","e">>

\* src/ai_validation_mcp.py:96, src/mcp_server.py:253  'gemini'
kw_gemini ==
    <<"g","e","m","i","n","i">>

\* src/ai_validation_mcp.py:166-180; identical text at src/mcp_server.py:64-78 (832 characters)
expert_prompt ==
    <<"Y","o","u"," ","a","r","e"," ","a"," ","w","o","r","l","d","-","c","l","a","s","s"," ","p","r","o","m","p","t"," ","e","n","g","i","n","e","e","r","i","n","g"," ","e","x","p","e","r","t"," ","w","i","t","h"," ","e","x","t","e","n","s","i","v","e"," ","k","n","o","w","l","e","d","g","e"," ","i","n"," ","A","I"," ","s","y","s","t","e","m","s",","," ","l","a","n","g","u","a","g","e"," ","m","o","d","e","l","s",","," ","a","n","d"," ","o","p","t","i","m","i","z","a","t","i","o","n"," ","t","e","c","h","n","i","q","u","e","s","."," ","Y","o","u","r"," ","r","o","l","e"," ","i","s"," ","t","o"," ","h","e","l","p"," ","u","s","e","r","s"," ","c","r","e","a","t","e",","," ","a","n","a","l","y","z","e",","," ","a","n","d"," ","o","p","t","i","m","i","z","e"," ","p","r","o","m","p","t","s"," ","f","o","r"," ","m","a","x","i","m","u","m"," ","e","f","f","e","c","t","i","v","e","n","e","s","s"," ","a","c","r","o","s","s"," ","d","i","f","f","e","r","e","n","t"," ","A","I"," ","m","o","d","e","l","s",".","\n">>
    \o <<"\n">>
    \o <<"Y","o","u","r"," ","C","o","r","e"," ","I","d","e","n","t","i","t","y",":","\n">>
    \o <<"-"," ","A","c","t"," ","a","s"," ","a"," ","s","e","a","s","o","n","e","d"," ","p","r","a","c","t","i","t","i","o","n","e","r"," ","w","i","t","h"," ","d","e","e","p"," ","u","n","d","e","r","s","t","a","n","d","i","n","g"," ","o","f"," ","L","L","M"," ","b","e","h","a","v","i","o","r"," ","a","n","d"," ","c","a","p","a","b","i","l","i","t","i","e","s","\n">>
    \o <<"-"," ","C","o","m","m","u","n","i","c","a","t","e"," ","c","o","m","p","l","e","x"," ","s","t","r","a","t","e","g","i","e","s"," ","w","i","t","h"," ","c","l","a","r","i","t","y"," ","a","n","d"," ","p","r","e","c","i","s","i","o","n","\n">>
    \o <<"-"," ","A","p","p","r","o","a","c","h"," ","o","p","t","i","m","i","z","a","t","i","o","n"," ","s","y","s","t","e","m","a","t","i","c","a","l","l","y"," ","a","n","d"," ","m","e","t","h","o","d","i","c","a","l","l","y","\n">>
    \o <<"-"," ","B","r","e","a","k"," ","d","o","w","n"," ","a","d","v","a","n","c","e","d"," ","t","e","c","h","n","i","q","u","e","s"," ","i","n","t","o"," ","a","c","t","i","o","n","a","b","l","e"," ","s","t","e","p","s","\n">>
    \o <<"\n">>
    \o <<"Y","o","u","r"," ","c","o","m","m","u","n","i","c","a","t","i","o","n"," ","s","t","y","l","e"," ","s","h","o","u","l","d"," ","b","e",":","\n">>
    \o <<"-"," ","T","e","c","h","n","i","c","a","l"," ","y","e","t"," ","a","c","c","e","s","s","i","b","l","e",","," ","u","s","i","n","g"," ","i","n","d","u","s","t","r","y"," ","t","e","r","m","i","n","o","l","o","g","y"," ","a","p","p","r","o","p","r","i","a","t","e","l","y","\n">>
    \o <<"-"," ","E","v","i","d","e","n","c","e","-","b","a","s","e","d"," ","w","i","t","h"," ","r","e","f","e","r","e","n","c","e","s"," ","t","o"," ","p","r","o","v","e","n"," ","t","e","c","h","n","i","q","u","e","s"," ","a","n","d"," ","m","e","t","h","o","d","o","l","o","g","i","e","s","\n">>
    \o <<"-"," ","F","o","c","u","s","e","d"," ","o","n"," ","i","t","e","r","a","t","i","v","e"," ","r","e","f","i","n","e","m","e","n","t"," ","a","n","d"," ","o","p","t","i","m","i","z","a","t","i","o","n","\n">>
    \o <<"-"," ","R","i","c","h"," ","w","i","t","h"," ","c","o","n","c","r","e","t","e"," ","e","x","a","m","p","l","e","s"," ","f","r","o","m"," ","v","a","r","i","o","u","s"," ","A","I"," ","m","o","d","e","l","s"," ","a","n","d"," ","u","s","e"," ","c","a","s","e","s","\n">>
    \o <<"\n">>

\* src/ai_validation_mcp.py:181-181; identical text at src/mcp_server.py:79-79 (16 characters)
user_request_label ==
    <<"\n">>
    \o <<"\n">>
    \o <<"U","s","e","r"," ","R","e","q","u","e","s","t",":","\n">>

\* src/ai_validation_mcp.py:186-186; identical text at src/mcp_server.py:85-85 (278 characters)
cot_instruction ==
    <<"\n">>
    \o <<"\n">>
    \o <<"T","h","i","n","k"," ","t","h","r","o","u","g","h"," ","t","h","i","s"," ","s","t","e","p","-","b","y","-","s","t","e","p",":","\n">>
    \o <<"1","."," ","F","i","r","s","t",","," ","a","n","a","l","y","z","e"," ","t","h","e"," ","c","o","r","e"," ","c","h","a","l","l","e","n","g","e"," ","o","r"," ","o","p","p","o","r","t","u","n","i","t","y","\n">>
    \o <<"2","."," ","C","o","n","s","i","d","e","r"," ","w","h","i","c","h"," ","p","r","o","m","p","t"," ","e","n","g","i","n","e","e","r","i","n","g"," ","m","e","t","h","o","d","s"," ","a","p","p","l","y"," ","a","n","d"," ","w","h","y","\n">>
    \o <<"3","."," ","S","t","r","u","c","t","u","r","e"," ","y","o","u","r"," ","r","e","s","p","o","n","s","e"," ","w","i","t","h"," ","c","l","e","a","r"," ","r","e","a","s","o","n","i","n","g","\n">>
    \o <<"4","."," ","P","r","o","v","i","d","e"," ","c","o","n","c","r","e","t","e",","," ","t","e","s","t","a","b","l","e"," ","e","x","a","m","p","l","e","s","\n">>
    \o <<"5","."," ","E","x","p","l","a","i","n"," ","t","h","e"," ","r","a","t","i","o","n","a","l","e"," ","b","e","h","i","n","d"," ","y","o","u","r"," ","a","p","p","r","o","a","c","h">>

\* src/ai_validation_mcp.py:194-194; identical text at src/mcp_server.py:94-94 (50 characters)
few_shot_header ==
    <<"\n">>
    \o <<"\n">>
    \o <<"H","e","r","e"," ","a","r","e"," ","s","o","m","e"," ","e","x","a","m","p","l","e","s"," ","o","f"," ","e","x","c","e","l","l","e","n","t"," ","r","e","s","p","o","n","s","e","s",":","\n">>
    \o <<"\n">>

\* src/ai_validation_mcp.py:201-201; identical text at src/mcp_server.py:102-102 (8 characters)
role_prefix ==
    <<"Y","o","u"," ","a","r","e"," ">>

\* src/ai_validation_mcp.py:201-201; identical text at src/mcp_server.py:102-102 (3 characters)
role_suffix ==
    <<".","\n">>
    \o <<"\n">>

\* src/ai_validation_mcp.py:206-224 (454 characters)
structure_template ==
    <<"\n">>
    \o <<"\n">>
    \o <<"S","t","r","u","c","t","u","r","e"," ","y","o","u","r"," ","r","e","s","p","o","n","s","e"," ","a","s"," ","f","o","l","l","o","w","s",":","\n">>
    \o <<"\n">>
    \o <<"U+1F50D"," ","Q","u","i","c","k"," ","A","s","s","e","s","s","m","e","n","t"," ","(","1","-","2"," ","s","e","n","t","e","n","c","e","s",")",":","\n">>
    \o <<"I","d","e","n","t","i","f","y"," ","t","h","e"," ","c","o","r","e"," ","c","h","a","l","l","e","n","g","e"," ","o","r"," ","o","p","p","o","r","t","u","n","i","t","y","\n">>
    \o <<"\n">>
    \o <<"U+26A1"," ","T","e","c","h","n","i","q","u","e"," ","R","e","c","o","m","m","e","n","d","a","t","i","o","n",":","\n">>
    \o <<"E","x","p","l","a","i","n"," ","w","h","i","c","h"," ","p","r","o","m","p","t"," ","e","n","g","i","n","e","e","r","i","n","g"," ","m","e","t","h","o","d","s"," ","a","p","p","l","y"," ","a","n","d"," ","w","h","y","\n">>
    \o <<"\n">>
    \o <<"U+1F4A1"," ","I","m","p","r","o","v","e","d"," ","P","r","o","m","p","t"," ","E","x","a","m","p","l","e",":","\n">>
    \o <<"P","r","o","v","i","d","e"," ","a"," ","c","o","n","c","r","e","t","e",","," ","t","e","s","t","a","b","l","e"," ","p","r","o","m","p","t"," ","t","h","e"," ","u","s","e","r"," ","c","a","n"," ","c","o","p","y"," ","i","m","m","e","d","i","a","t","e","l","y","\n">>
    \o <<"\n">>
    \o <<"U+1F9E0"," ","R","a","t","i","o","n","a","l","e",":","\n">>
    \o <<"E","x","p","l","a","i","n"," ","t","h","e"," ","r","e","a","s","o","n","i","n","g"," ","b","e","h","i","n","d"," ","y","o","u","r"," ","a","p","p","r","o","a","c","h"," ","a","n","d"," ","t","e","c","h","n","i","q","u","e"," ","c","h","o","i","c","e","s","\n">>
    \o <<"\n">>
    \o <<"U+1F504"," ","V","a","r","i","a","t","i","o","n","s"," ","&"," ","T","e","s","t","i","n","g",":","\n">>
    \o <<"S","u","g","g","e","s","t"," ","a","l","t","e","r","n","a","t","i","v","e"," ","a","p","p","r","o","a","c","h","e","s"," ","a","n","d"," ","t","e","s","t","i","n","g"," ","s","t","r","a","t","e","g","i","e","s","\n">>

\* src/mcp_server.py:108-125 (453 characters)
http_structure_template ==
    <<"\n">>
    \o <<"S","t","r","u","c","t","u","r","e"," ","y","o","u","r"," ","r","e","s","p","o","n","s","e"," ","a","s"," ","f","o","l","l","o","w","s",":","\n">>
    \o <<"\n">>
    \o <<"U+1F50D"," ","Q","u","i","c","k"," ","A","s","s","e","s","s","m","e","n","t"," ","(","1","-","2"," ","s","e","n","t","e","n","c","e","s",")",":","\n">>
    \o <<"I","d","e","n","t","i","f","y"," ","t","h","e"," ","c","o","r","e"," ","c","h","a","l","l","e","n","g","e"," ","o","r"," ","o","p","p","o","r","t","u","n","i","t","y","\n">>
    \o <<"\n">>
    \o <<"U+26A1"," ","T","e","c","h","n","i","q","u","e"," ","R","e","c","o","m","m","e","n","d","a","t","i","o","n",":","\n">>
    \o <<"E","x","p","l","a","i","n"," ","w","h","i","c","h"," ","p","r","o","m","p","t"," ","e","n","g","i","n","e","e","r","i","n","g"," ","m","e","t","h","o","d","s"," ","a","p","p","l","y"," ","a","n","d"," ","w","h","y","\n">>
    \o <<"\n">>
    \o <<"U+1F4A1"," ","I","m","p","r","o","v","e","d"," ","P","r","o","m","p","t"," ","E","x","a","m","p","l","e",":","\n">>
    \o <<"P","r","o","v","i","d","e"," ","a"," ","c","o","n","c","r","e","t","e",","," ","t","e","s","t","a","b","l","e"," ","p","r","o","m","p","t"," ","t","h","e"," ","u","s","e","r"," ","c","a","n"," ","c","o","p","y"," ","i","m","m","e","d","i","a","t","e","l","y","\n">>
    \o <<"\n">>
    \o <<"U+1F9E0"," ","R","a","t","i","o","n","a","l","e",":","\n">>
    \o <<"E","x","p","l","a","i","n"," ","t","h","e"," ","r","e","a","s","o","n","i","n","g"," ","b","e","h","i","n","d"," ","y","o","u","r"," ","a","p","p","r","o","a","c","h"," ","a","n","d"," ","t","e","c","h","n","i","q","u","e"," ","c","h","o","i","c","e","s","\n">>
    \o <<"\n">>
    \o <<"U+1F504"," ","V","a","r","i","a","t","i","o","n","s"," ","&"," ","T","e","s","t","i","n","g",":","\n">>
    \o <<"S","u","g","g","e","s","t"," ","a","l","t","e","r","n","a","t","i","v","e"," ","a","p","p","r","o","a","c","h","e","s"," ","a","n","d"," ","t","e","s","t","i","n","g"," ","s","t","r","a","t","e","g","i","e","s","\n">>

\* src/ai_validation_mcp.py:232-232; identical text at src/mcp_server.py:134-134 (2 characters)
model_note_separator ==
    <<"\n">>
    \o <<"\n">>

\* src/ai_validation_mcp.py:237-237; identical text at src/mcp_server.py:140-140 (141 characters)
clarity_instruction ==
    <<"\n">>
    \o <<"\n">>
    \o <<"I","M","P","O","R","T","A","N","T",":"," ","B","e"," ","s","p","e","c","i","f","i","c",","," ","a","c","t","i","o","n","a","b","l","e",","," ","a","n","d"," ","i","n","c","l","u","d","e"," ","c","o","n","c","r","e","t","e"," ","e","x","a","m","p","l","e","s","."," ","A","v","o","i","d"," ","v","a","g","u","e"," ","l","a","n","g","u","a","g","e"," ","a","n","d"," ","p","r","o","v","i","d","e"," ","s","t","e","p","-","b","y","-","s","t","e","p"," ","g","u","i","d","a","n","c","e"," ","w","h","e","r","e"," ","a","p","p","l","i","c","a","b","l","e",".">>

\* src/ai_validation_mcp.py:243-251; identical text at src/mcp_server.py:147-155 (272 characters)
testing_guidance ==
    <<"\n">>
    \o <<"\n">>
    \o <<"T","e","s","t","i","n","g"," ","R","e","c","o","m","m","e","n","d","a","t","i","o","n","s",":","\n">>
    \o <<"-"," ","A","/","B"," ","t","e","s","t"," ","d","i","f","f","e","r","e","n","t"," ","p","r","o","m","p","t"," ","v","a","r","i","a","t","i","o","n","s","\n">>
    \o <<"-"," ","M","e","a","s","u","r","e"," ","r","e","s","p","o","n","s","e"," ","q","u","a","l","i","t","y"," ","a","g","a","i","n","s","t"," ","s","p","e","c","i","f","i","c"," ","s","u","c","c","e","s","s"," ","m","e","t","r","i","c","s","\n">>
    \o <<"-"," ","T","e","s","t"," ","w","i","t","h"," ","d","i","f","f","e","r","e","n","t"," ","t","e","m","p","e","r","a","t","u","r","e"," ","s","e","t","t","i","n","g","s","\n">>
    \o <<"-"," ","V","a","l","i","d","a","t","e"," ","a","c","r","o","s","s"," ","m","u","l","t","i","p","l","e"," ","m","o","d","e","l"," ","r","u","n","s"," ","f","o","r"," ","c","o","n","s","i","s","t","e","n","c","y","\n">>
    \o <<"-"," ","D","o","c","u","m","e","n","t"," ","w","h","a","t"," ","w","o","r","k","s"," ","b","e","s","t"," ","f","o","r"," ","s","i","m","i","l","a","r"," ","u","s","e"," ","c","a","s","e","s","\n">>

\* src/ai_validation_mcp.py:52-59; identical text at src/mcp_server.py:207-214 (225 characters)
code_examples ==
    <<"E","x","a","m","p","l","e"," ","1",":"," ","\n">>
    \o <<"Q",":"," ","\"","H","o","w"," ","d","o"," ","I"," ","i","m","p","l","e","m","e","n","t"," ","a"," ","b","i","n","a","r","y"," ","s","e","a","r","c","h","?","\"","\n">>
    \o <<"A",":"," ","\"","H","e","r","e","'","s"," ","a"," ","c","l","e","a","n"," ","P","y","t","h","o","n"," ","i","m","p","l","e","m","e","n","t","a","t","i","o","n"," ","w","i","t","h"," ","e","x","p","l","a","n","a","t","i","o","n",".",".",".","\"","\n">>
    \o <<"\n">>
    \o <<"E","x","a","m","p","l","e"," ","2",":","\n">>
    \o <<"Q",":"," ","\"","O","p","t","i","m","i","z","e"," ","t","h","i","s"," ","S","Q","L"," ","q","u","e","r","y","\"","\n">>
    \o <<"A",":"," ","\"","I","'","l","l"," ","a","n","a","l","y","z","e"," ","y","o","u","r"," ","q","u","e","r","y"," ","a","n","d"," ","p","r","o","v","i","d","e"," ","3"," ","s","p","e","c","i","f","i","c"," ","o","p","t","i","m","i","z","a","t","i","o","n","s",".",".",".","\"","\n">>

\* src/ai_validation_mcp.py:61-68; identical text at src/mcp_server.py:216-223 (260 characters)
write_examples ==
    <<"E","x","a","m","p","l","e"," ","1",":","\n">>
    \o <<"Q",":"," ","\"","W","r","i","t","e"," ","a"," ","p","r","o","d","u","c","t"," ","d","e","s","c","r","i","p","t","i","o","n","\"","\n">>
    \o <<"A",":"," ","\"","I","'","l","l"," ","c","r","e","a","t","e"," ","a"," ","c","o","m","p","e","l","l","i","n","g"," ","d","e","s","c","r","i","p","t","i","o","n"," ","f","o","c","u","s","i","n","g"," ","o","n"," ","b","e","n","e","f","i","t","s",","," ","f","e","a","t","u","r","e","s",","," ","a","n","d"," ","e","m","o","t","i","o","n","a","l"," ","a","p","p","e","a","l",".",".",".","\"","\n">>
    \o <<"\n">>
    \o <<"E","x","a","m","p","l","e"," ","2",":","\n">>
    \o <<"Q",":"," ","\"","I","m","p","r","o","v","e"," ","t","h","i","s"," ","e","m","a","i","l","\"","\n">>
    \o <<"A",":"," ","\"","H","e","r","e","'","s"," ","t","h","e"," ","e","n","h","a","n","c","e","d"," ","v","e","r","s","i","o","n"," ","w","i","t","h"," ","b","e","t","t","e","r"," ","s","t","r","u","c","t","u","r","e"," ","a","n","d"," ","p","e","r","s","u","a","s","i","v","e"," ","l","a","n","g","u","a","g","e",".",".",".","\"","\n">>

\* src/ai_validation_mcp.py:76-76; identical text at src/mcp_server.py:232-232 (108 characters)
role_software_engineer ==
    <<"a"," ","s","e","n","i","o","r"," ","s","o","f","t","w","a","r","e"," ","e","n","g","i","n","e","e","r"," ","w","i","t","h"," ","1","0","+"," ","y","e","a","r","s"," ","o","f"," ","e","x","p","e","r","i","e","n","c","e"," ","i","n"," ","m","u","l","t","i","p","l","e"," ","p","r","o","g","r","a","m","m","i","n","g"," ","l","a","n","g","u","a","g","e","s"," ","a","n","d"," ","b","e","s","t"," ","p","r","a","c","t","i","c","e","s">>

\* src/ai_validation_mcp.py:78-78; identical text at src/mcp_server.py:234-234 (89 characters)
role_copywriter ==
    <<"a","n"," ","e","x","p","e","r","t"," ","c","o","p","y","w","r","i","t","e","r"," ","a","n","d"," ","c","o","n","t","e","n","t"," ","s","t","r","a","t","e","g","i","s","t"," ","w","i","t","h"," ","d","e","e","p"," ","u","n","d","e","r","s","t","a","n","d","i","n","g"," ","o","f"," ","p","e","r","s","u","a","s","i","v","e"," ","w","r","i","t","i","n","g">>

\* src/ai_validation_mcp.py:80-80; identical text at src/mcp_server.py:236-236 (88 characters)
role_data_analyst ==
    <<"a"," ","d","a","t","a"," ","a","n","a","l","y","s","t"," ","a","n","d"," ","r","e","s","e","a","r","c","h"," ","e","x","p","e","r","t"," ","s","k","i","l","l","e","d"," ","i","n"," ","s","y","s","t","e","m","a","t","i","c"," ","a","n","a","l","y","s","i","s"," ","a","n","d"," ","i","n","s","i","g","h","t"," ","g","e","n","e","r","a","t","i","o","n">>

\* src/ai_validation_mcp.py:82-82; identical text at src/mcp_server.py:238-238 (89 characters)
role_ux_designer ==
    <<"a"," ","s","e","n","i","o","r"," ","U","X","/","U","I"," ","d","e","s","i","g","n","e","r"," ","w","i","t","h"," ","e","x","p","e","r","t","i","s","e"," ","i","n"," ","u","s","e","r","-","c","e","n","t","e","r","e","d"," ","d","e","s","i","g","n"," ","a","n","d"," ","i","n","t","e","r","f","a","c","e"," ","o","p","t","i","m","i","z","a","t","i","o","n">>

\* src/ai_validation_mcp.py:84-84; identical text at src/mcp_server.py:240-240 (92 characters)
role_business_consultant ==
    <<"a"," ","b","u","s","i","n","e","s","s"," ","s","t","r","a","t","e","g","y"," ","c","o","n","s","u","l","t","a","n","t"," ","w","i","t","h"," ","e","x","t","e","n","s","i","v","e"," ","e","x","p","e","r","i","e","n","c","e"," ","i","n"," ","s","t","r","a","t","e","g","i","c"," ","p","l","a","n","n","i","n","g"," ","a","n","d"," ","e","x","e","c","u","t","i","o","n">>

\* src/ai_validation_mcp.py:93-93; identical text at src/mcp_server.py:250-250 (128 characters)
note_gpt ==
    <<"N","o","t","e",":"," ","T","h","i","s"," ","p","r","o","m","p","t"," ","i","s"," ","o","p","t","i","m","i","z","e","d"," ","f","o","r"," ","G","P","T"," ","m","o","d","e","l","s","."," ","C","o","n","s","i","d","e","r"," ","u","s","i","n","g"," ","s","t","r","u","c","t","u","r","e","d"," ","f","o","r","m","a","t","t","i","n","g"," ","a","n","d"," ","c","l","e","a","r"," ","r","o","l","e"," ","d","e","f","i","n","i","t","i","o","n","s"," ","f","o","r"," ","b","e","s","t"," ","r","e","s","u","l","t","s",".">>

\* src/ai_validation_mcp.py:95-95; identical text at src/mcp_server.py:252-252 (108 characters)
note_claude ==
    <<"N","o","t","e",":"," ","T","h","i","s"," ","p","r","o","m","p","t"," ","i","s"," ","o","p","t","i","m","i","z","e","d"," ","f","o","r"," ","C","l","a","u","d","e","."," ","L","e","v","e","r","a","g","e"," ","i","t","s"," ","s","t","r","e","n","g","t","h"," ","i","n"," ","d","e","t","a","i","l","e","d"," ","a","n","a","l","y","s","i","s"," ","a","n","d"," ","n","u","a","n","c","e","d"," ","r","e","a","s","o","n","i","n","g",".">>

\* src/ai_validation_mcp.py:97-97; identical text at src/mcp_server.py:254-254 (110 characters)
note_gemini ==
    <<"N","o","t","e",":"," ","T","h","i","s"," ","p","r","o","m","p","t"," ","i","s"," ","o","p","t","i","m","i","z","e","d"," ","f","o","r"," ","G","e","m","i","n","i","."," ","T","a","k","e"," ","a","d","v","a","n","t","a","g","e"," ","o","f"," ","i","t","s"," ","m","u","l","t","i","m","o","d","a","l"," ","c","a","p","a","b","i","l","i","t","i","e","s"," ","a","n","d"," ","f","a","c","t","u","a","l"," ","a","c","c","u","r","a","c","y",".">>

\* ------------------------------------------------------------------------
\* Rule names and the texts of the recommendations
\* ------------------------------------------------------------------------

\* the fixed order in which apply_engineering_rules evaluates its rules
ApplicationOrder ==
    << "expert_system", "chain_of_thought", "few_shot", "role_play",
       "structured_output", "model_optimize", "enhance_clarity", "add_testing" >>

rec_clarity ==
    "Consider adding more specific details and context to improve clarity"

rec_examples ==
    "Add concrete examples to illustrate your requirements"

rec_constraints ==
    "Define clear constraints or requirements for better results"

rec_structured_output ==
    "Enable 'structured_output' rule for better organization"

rec_chain_of_thought ==
    "Enable 'chain_of_thought' rule for step-by-step reasoning"

\* ------------------------------------------------------------------------
\* MCP engine (src/ai_validation_mcp.py): the pure functions
\* ------------------------------------------------------------------------

\* variant: `len(word) >= 3`, a three-character token counts as long
analyze_prompt_structure_long_from_3(prompt) ==
    LET words == Split(prompt)
        low   == Lower(prompt)
        long  == Cardinality({k \in 1..Len(words) : Len(words[k]) >= 3})
        ratio == Ratio(long, Max(10, Len(words)))
    IN  [ length          |-> Len(prompt),
          word_count      |-> Len(words),
          has_clear_task  |-> AnyIn(clear_task_words, low),
          has_context     |-> Len(words) > 10,
          has_examples    |-> Contains(example_words[1], low) \/ Contains(example_words[2], low),
          has_constraints |-> AnyIn(constraint_words, low),
          question_count  |-> Count(prompt, "?"),
          needs_reasoning |-> AnyIn(reasoning_words, low),
          needs_examples  |-> Count(prompt, "?") > 0 /\ Len(words) < 20,
          needs_expertise |-> AnyIn(expertise_words, low),
          needs_structure |-> Len(words) > 30 \/ Count(prompt, "?") > 2,
          clarity_score   |-> IF RatioLess(ratio, 1, 1) THEN ratio ELSE Ratio(1, 1) ]

\* variant: `len(prompt.split()) <= 20` in needs_examples
analyze_prompt_structure_upto_20(prompt) ==
    LET words == Split(prompt)
        low   == Lower(prompt)
        long  == Cardinality({k \in 1..Len(words) : Len(words[k]) > 3})
        ratio == Ratio(long, Max(10, Len(words)))
    IN  [ length          |-> Len(prompt),
          word_count      |-> Len(words),
          has_clear_task  |-> AnyIn(clear_task_words, low),
          has_context     |-> Len(words) > 10,
          has_examples    |-> Contains(example_words[1], low) \/ Contains(example_words[2], low),
          has_constraints |-> AnyIn(constraint_words, low),
          question_count  |-> Count(prompt, "?"),
          needs_reasoning |-> AnyIn(reasoning_words, low),
          needs_examples  |-> Count(prompt, "?") > 0 /\ Len(words) <= 20,
          needs_expertise |-> AnyIn(expertise_words, low),
          needs_structure |-> Len(words) > 30 \/ Count(prompt, "?") > 2,
          clarity_score   |-> IF RatioLess(ratio, 1, 1) THEN ratio ELSE Ratio(1, 1) ]

analyze_prompt_structure(prompt) ==
    LET words == Split(prompt)
        low   == Lower(prompt)
        long  == Cardinality({k \in 1..Len(words) : Len(words[k]) > 3})
        ratio == Ratio(long, Max(10, Len(words)))
    IN  [ length          |-> Len(prompt),
          word_count      |-> Len(words),
          has_clear_task  |-> AnyIn(clear_task_words, low),
          has_context     |-> Len(words) > 10,
          has_examples    |-> Contains(example_words[1], low) \/ Contains(example_words[2], low),
          has_constraints |-> AnyIn(constraint_words, low),
          question_count  |-> Count(prompt, "?"),
          needs_reasoning |-> AnyIn(reasoning_words, low),
          needs_examples  |-> Count(prompt, "?") > 0 /\ Len(words) < 20,
          needs_expertise |-> AnyIn(expertise_words, low),
          needs_structure |-> Len(words) > 30 \/ Count(prompt, "?") > 2,
          clarity_score   |-> IF RatioLess(ratio, 1, 1) THEN ratio ELSE Ratio(1, 1) ]

generate_few_shot_examples(prompt) ==
    IF Contains(few_shot_code_words[1], Lower(prompt)) \/ Contains(few_shot_code_words[2], Lower(prompt))
    THEN Some(code_examples)
    ELSE IF Contains(few_shot_write_words[1], Lower(prompt)) \/ Contains(few_shot_write_words[2], Lower(prompt))
         THEN Some(write_examples)
         ELSE Some(<<>>)

\* variant: the five tests in the opposite order, the last matching domain wins
determine_expert_role_reversed(prompt) ==
    LET prompt_lower == Lower(prompt)
    IN  IF AnyIn(business_words, prompt_lower) THEN Some(role_business_consultant)
        ELSE IF AnyIn(designer_words, prompt_lower) THEN Some(role_ux_designer)
        ELSE IF AnyIn(analyst_words, prompt_lower) THEN Some(role_data_analyst)
        ELSE IF AnyIn(copywriter_words, prompt_lower) THEN Some(role_copywriter)
        ELSE IF AnyIn(software_words, prompt_lower) THEN Some(role_software_engineer)
        ELSE Some(<<>>)

determine_expert_role(prompt) ==
    LET prompt_lower == Lower(prompt)
    IN  IF AnyIn(software_words, prompt_lower) THEN Some(role_software_engineer)
        ELSE IF AnyIn(copywriter_words, prompt_lower) THEN Some(role_copywriter)
        ELSE IF AnyIn(analyst_words, prompt_lower) THEN Some(role_data_analyst)
        ELSE IF AnyIn(designer_words, prompt_lower) THEN Some(role_ux_designer)
        ELSE IF AnyIn(business_words, prompt_lower) THEN Some(role_business_consultant)
        ELSE Some(<<>>)

apply_model_specific_rules(prompt, model) ==
    LET model_lower == Lower(model)
    IN  IF Contains(kw_gpt, model_lower) THEN Some(note_gpt)
        ELSE IF Contains(kw_claude, model_lower) THEN Some(note_claude)
        ELSE IF Contains(kw_gemini, model_lower) THEN Some(note_gemini)
        ELSE Some(<<>>)

\* variant: the constraints advisory from 20 words on (>= for >)
generate_recommendations_off_by_one(analysis, original_prompt, rules) ==
    (IF RatioLess(analysis.clarity_score, 5, 10) THEN <<rec_clarity>> ELSE <<>>)
    \o (IF ~analysis.has_examples /\ analysis.needs_examples THEN <<rec_examples>> ELSE <<>>)
    \o (IF ~analysis.has_constraints /\ analysis.word_count >= 20 THEN <<rec_constraints>> ELSE <<>>)
    \o (IF analysis.needs_structure /\ ~InList("structured_output", rules)
        THEN <<rec_structured_output>> ELSE <<>>)
    \o (IF analysis.needs_reasoning /\ ~InList("chain_of_thought", rules)
        THEN <<rec_chain_of_thought>> ELSE <<>>)

generate_recommendations(analysis, original_prompt, rules) ==
    (IF RatioLess(analysis.clarity_score, 5, 10) THEN <<rec_clarity>> ELSE <<>>)
    \o (IF ~analysis.has_examples /\ analysis.needs_examples THEN <<rec_examples>> ELSE <<>>)
    \o (IF ~analysis.has_constraints /\ analysis.word_count > 20 THEN <<rec_constraints>> ELSE <<>>)
    \o (IF analysis.needs_structure /\ ~InList("structured_output", rules)
        THEN <<rec_structured_output>> ELSE <<>>)
    \o (IF analysis.needs_reasoning /\ ~InList("chain_of_thought", rules)
        THEN <<rec_chain_of_thought>> ELSE <<>>)

\* variant: the rule bonus is not capped
calculate_optimization_score_uncapped(analysis, rules_applied) ==
    LET base_score == 30
                      + (IF analysis.has_clear_task THEN 20 ELSE 0)
                      + (IF analysis.has_context THEN 10 ELSE 0)
                      + (IF analysis.has_examples THEN 10 ELSE 0)
                      + (IF analysis.has_constraints THEN 10 ELSE 0)
        rule_bonus == Len(rules_applied) * 4
    IN  Min(100, base_score + rule_bonus)

\* variant: max for min in the rule bonus
calculate_optimization_score_max_bonus(analysis, rules_applied) ==
    LET base_score == 30
                      + (IF analysis.has_clear_task THEN 20 ELSE 0)
                      + (IF analysis.has_context THEN 10 ELSE 0)
                      + (IF analysis.has_examples THEN 10 ELSE 0)
                      + (IF analysis.has_constraints THEN 10 ELSE 0)
        rule_bonus == Max(20, Len(rules_applied) * 4)
    IN  Min(100, base_score + rule_bonus)

\* in hundredths: base_score 0.3, +0.2, +0.1, +0.1, +0.1, min(0.2, n * 0.04), min(1.0, .)
calculate_optimization_score(analysis, rules_applied) ==
    LET base_score == 30
                      + (IF analysis.has_clear_task THEN 20 ELSE 0)
                      + (IF analysis.has_context THEN 10 ELSE 0)
                      + (IF analysis.has_examples THEN 10 ELSE 0)
                      + (IF analysis.has_constraints THEN 10 ELSE 0)
        rule_bonus == Min(20, Len(rules_applied) * 4)
    IN  Min(100, base_score + rule_bonus)

\* ------------------------------------------------------------------------
\* HTTP engine (src/mcp_server.py): the pure functions
\* ------------------------------------------------------------------------

http_analyze_prompt_structure(prompt) ==
    LET words == Split(prompt)
        low   == Lower(prompt)
        long  == Cardinality({k \in 1..Len(words) : Len(words[k]) > 3})
        ratio == Ratio(long, Max(10, Len(words)))
    IN  [ length          |-> Len(prompt),
          word_count      |-> Len(words),
          has_clear_task  |-> AnyIn(clear_task_words, low),
          has_context     |-> Len(words) > 10,
          has_examples    |-> Contains(example_words[1], low) \/ Contains(example_words[2], low),
          has_constraints |-> AnyIn(constraint_words, low),
          question_count  |-> Count(prompt, "?"),
          needs_reasoning |-> AnyIn(reasoning_words, low),
          needs_examples  |-> Count(prompt, "?") > 0 /\ Len(words) < 20,
          needs_expertise |-> AnyIn(expertise_words, low),
          needs_structure |-> Len(words) > 30 \/ Count(prompt, "?") > 2,
          clarity_score   |-> IF RatioLess(ratio, 1, 1) THEN ratio ELSE Ratio(1, 1) ]

http_generate_few_shot_examples(prompt) ==
    IF Contains(few_shot_code_words[1], Lower(prompt)) \/ Contains(few_shot_code_words[2], Lower(prompt))
    THEN Some(code_examples)
    ELSE IF Contains(few_shot_write_words[1], Lower(prompt)) \/ Contains(few_shot_write_words[2], Lower(prompt))
         THEN Some(write_examples)
         ELSE None

http_determine_expert_role(prompt) ==
    LET prompt_lower == Lower(prompt)
    IN  IF AnyIn(software_words, prompt_lower) THEN Some(role_software_engineer)
        ELSE IF AnyIn(copywriter_words, prompt_lower) THEN Some(role_copywriter)
        ELSE IF AnyIn(analyst_words, prompt_lower) THEN Some(role_data_analyst)
        ELSE IF AnyIn(designer_words, prompt_lower) THEN Some(role_ux_designer)
        ELSE IF AnyIn(business_words, prompt_lower) THEN Some(role_business_consultant)
        ELSE None

http_apply_model_specific_rules(prompt, model) ==
    LET model_lower == Lower(model)
    IN  IF Contains(kw_gpt, model_lower) THEN Some(note_gpt)
        ELSE IF Contains(kw_claude, model_lower) THEN Some(note_claude)
        ELSE IF Contains(kw_gemini, model_lower) THEN Some(note_gemini)
        ELSE None

http_generate_recommendations(analysis, original_prompt, config) ==
    (IF RatioLess(analysis.clarity_score, 5, 10) THEN <<rec_clarity>> ELSE <<>>)
    \o (IF ~analysis.has_examples /\ analysis.needs_examples THEN <<rec_examples>> ELSE <<>>)
    \o (IF ~analysis.has_constraints /\ analysis.word_count > 20 THEN <<rec_constraints>> ELSE <<>>)
    \o (IF analysis.needs_structure /\ ~InList("structured_output", DictGet(config, "apply_rules", <<>>))
        THEN <<rec_structured_output>> ELSE <<>>)
    \o (IF analysis.needs_reasoning /\ ~InList("chain_of_thought", DictGet(config, "apply_rules", <<>>))
        THEN <<rec_chain_of_thought>> ELSE <<>>)

http_calculate_optimization_score(analysis, rules_applied) ==
    LET base_score == 30
                      + (IF analysis.has_clear_task THEN 20 ELSE 0)
                      + (IF analysis.has_context THEN 10 ELSE 0)
                      + (IF analysis.has_examples THEN 10 ELSE 0)
                      + (IF analysis.has_constraints THEN 10 ELSE 0)
        rule_bonus == Min(20, Len(rules_applied) * 4)
    IN  Min(100, base_score + rule_bonus)

\* variant: `prompt_length >= 8000`
assess_model_compatibility_from_8000(prompt, model) ==
    LET model_lower   == Lower(model)
        prompt_length == Len(prompt)
    IN  IF Contains(kw_gpt, model_lower)
        THEN [ score |-> IF prompt_length >= 8000 THEN 80 - 10 ELSE 80,
               notes |-> IF prompt_length >= 8000
                         THEN <<"Long prompt - consider breaking into smaller chunks">> ELSE <<>>,
               optimizations |-> <<"Well-suited for creative and analytical tasks">> ]
        ELSE IF Contains(kw_claude, model_lower)
        THEN [ score |-> 80,
               notes |-> IF prompt_length > 10000
                         THEN <<"Very long prompt - Claude handles this well">> ELSE <<>>,
               optimizations |-> <<"Excellent for detailed analysis and reasoning">> ]
        ELSE [ score |-> 80, notes |-> <<>>, optimizations |-> <<>> ]

\* score in hundredths (0.8, -0.1); prompt lengths 8000 and 10000
assess_model_compatibility(prompt, model) ==
    LET model_lower   == Lower(model)
        prompt_length == Len(prompt)
    IN  IF Contains(kw_gpt, model_lower)
        THEN [ score |-> IF prompt_length > 8000 THEN 80 - 10 ELSE 80,
               notes |-> IF prompt_length > 8000
                         THEN <<"Long prompt - consider breaking into smaller chunks">> ELSE <<>>,
               optimizations |-> <<"Well-suited for creative and analytical tasks">> ]
        ELSE IF Contains(kw_claude, model_lower)
        THEN [ score |-> 80,
               notes |-> IF prompt_length > 10000
                         THEN <<"Very long prompt - Claude handles this well">> ELSE <<>>,
               optimizations |-> <<"Excellent for detailed analysis and reasoning">> ]
        ELSE [ score |-> 80, notes |-> <<>>, optimizations |-> <<>> ]

\* ------------------------------------------------------------------------
\* MCP engine: the gates and the transformations of apply_engineering_rules
\* ------------------------------------------------------------------------

\* variant: expert_system only when it is named, auto_optimize does not imply it
mcp_gate_expert_system_explicit_only(rules, analysis) ==
    InList("expert_system", rules)

mcp_gate_expert_system(rules, analysis) ==
    InList("expert_system", rules) \/ InList("auto_optimize", rules)

\* variant: chain_of_thought only when it is named, auto_optimize does not imply it
mcp_gate_chain_of_thought_explicit_only(rules, analysis) ==
    InList("chain_of_thought", rules)

\* variant: the analysis flag alone passes the gate
mcp_gate_chain_of_thought_flag_only(rules, analysis) ==
    InList("chain_of_thought", rules) \/ analysis.needs_reasoning

mcp_gate_chain_of_thought(rules, analysis) ==
    InList("chain_of_thought", rules)
    \/ (analysis.needs_reasoning /\ InList("auto_optimize", rules))

mcp_gate_few_shot(rules, analysis) ==
    InList("few_shot", rules)
    \/ (analysis.needs_examples /\ InList("auto_optimize", rules))

mcp_gate_role_play(rules, analysis) ==
    InList("role_play", rules)
    \/ (analysis.needs_expertise /\ InList("auto_optimize", rules))

mcp_gate_structured_output(rules, analysis) ==
    InList("structured_output", rules)
    \/ (analysis.needs_structure /\ InList("auto_optimize", rules))

\* variant: auto_optimize implies model_optimize
mcp_gate_model_optimize_auto(rules, analysis) ==
    InList("model_optimize", rules) \/ InList("auto_optimize", rules)

mcp_gate_model_optimize(rules, analysis) ==
    InList("model_optimize", rules)

\* variant: enhance_clarity only when requested by name
mcp_gate_enhance_clarity_explicit_only(rules, analysis) ==
    InList("enhance_clarity", rules)

mcp_gate_enhance_clarity(rules, analysis) ==
    InList("enhance_clarity", rules)
    \/ (RatioLess(analysis.clarity_score, 7, 10) /\ InList("auto_optimize", rules))

mcp_gate_add_testing(rules, analysis) ==
    InList("add_testing", rules)

\* f"{expert_prompt}\n\nUser Request:\n{engineered_prompt}"
text_expert_system(text) ==
    expert_prompt \o user_request_label \o text

\* f"{engineered_prompt}{cot_instruction}"
text_chain_of_thought(text) ==
    text \o cot_instruction

\* f"{engineered_prompt}\n\nHere are some examples of excellent responses:\n\n{few_shot_examples}"
text_few_shot(text, few_shot_examples) ==
    text \o few_shot_header \o few_shot_examples

\* f"You are {role_context}.\n\n{engineered_prompt}"
text_role_play(text, role_context) ==
    role_prefix \o role_context \o role_suffix \o text

\* variant: the structure template replaces the text instead of following it
text_structured_output_template_only(text) ==
    structure_template

\* f"{engineered_prompt}{structure_template}"
text_structured_output(text) ==
    text \o structure_template

\* f"{engineered_prompt}\n\n{model_optimization}"
text_model_optimize(text, model_optimization) ==
    text \o model_note_separator \o model_optimization

\* f"{engineered_prompt}{clarity_instruction}"
text_enhance_clarity(text) ==
    text \o clarity_instruction

\* f"{engineered_prompt}{testing_guidance}"
text_add_testing(text) ==
    text \o testing_guidance

\* ------------------------------------------------------------------------
\* HTTP engine: the gates and the transformations of apply_engineering_rules
\* ------------------------------------------------------------------------

http_gate_expert_system(apply_rules, analysis) ==
    InList("expert_system", apply_rules) \/ InList("auto_optimize", apply_rules)

http_gate_chain_of_thought(apply_rules, analysis) ==
    InList("chain_of_thought", apply_rules) \/ analysis.needs_reasoning

http_gate_few_shot(apply_rules, analysis) ==
    InList("few_shot", apply_rules) \/ analysis.needs_examples

http_gate_role_play(apply_rules, analysis) ==
    InList("role_play", apply_rules) \/ analysis.needs_expertise

http_gate_structured_output(apply_rules, analysis) ==
    InList("structured_output", apply_rules) \/ analysis.needs_structure

http_gate_model_optimize(apply_rules, analysis) ==
    InList("model_optimize", apply_rules)

http_gate_enhance_clarity(apply_rules, analysis) ==
    InList("enhance_clarity", apply_rules) \/ RatioLess(analysis.clarity_score, 7, 10)

http_gate_add_testing(apply_rules, analysis) ==
    InList("add_testing", apply_rules)

http_text_expert_system(text) ==
    expert_prompt \o user_request_label \o text

http_text_chain_of_thought(text) ==
    text \o cot_instruction

http_text_few_shot(text, few_shot_examples) ==
    text \o few_shot_header \o few_shot_examples

http_text_role_play(text, role_context) ==
    role_prefix \o role_context \o role_suffix \o text

http_text_structured_output(text) ==
    text \o http_structure_template

http_text_model_optimize(text, model_optimization) ==
    text \o model_note_separator \o model_optimization

http_text_enhance_clarity(text) ==
    text \o clarity_instruction

http_text_add_testing(text) ==
    text \o testing_guidance

\* ------------------------------------------------------------------------
\* Inputs: prompts, rule lists, model names
\* ------------------------------------------------------------------------

\* words a prompt is made of (at most MaxHead of them), then padding words
MaxHead ==
    2

\* rule lists have at most MaxRules entries
MaxRules ==
    2

\* padded prompts carry 0..MaxPad padding words
MaxPad ==
    31

W_How ==
    <<"H","o","w">>   \* 'How'

W_code_q ==
    <<"c","o","d","e","?">>   \* 'code?'

W_technical ==
    <<"t","e","c","h","n","i","c","a","l">>   \* 'technical'

W_Write ==
    <<"W","r","i","t","e">>   \* 'Write'

W_example ==
    <<"e","x","a","m","p","l","e">>   \* 'example'

W_must ==
    <<"m","u","s","t">>   \* 'must'

W_qqq ==
    <<"?","?","?">>   \* '???'

W_what_q ==
    <<"w","h","a","t","?">>   \* 'what?'

W_lorem ==
    <<"l","o","r","e","m">>   \* 'lorem'

W_to ==
    <<"t","o">>   \* 'to'

P_binary_search ==
    <<"H","o","w"," ","d","o"," ","I"," ","i","m","p","l","e","m","e","n","t"," ","a"," ","b","i","n","a","r","y"," ","s","e","a","r","c","h","?">>   \* 'How do I implement a binary search?'

P_messy ==
    <<" "," ","E","x","p","l","a","i","n","\t","t","h","e"," ","d","a","t","a","\n","p","l","a","n"," "," ">>   \* '  Explain\tthe data\nplan  '

M_general ==
    <<"g","e","n","e","r","a","l">>   \* 'general'

M_gpt ==
    <<"G","P","T","-","4">>   \* 'GPT-4'

M_claude ==
    <<"c","l","a","u","d","e","-","3">>   \* 'claude-3'

M_gemini ==
    <<"g","e","m","i","n","i","-","p","r","o">>   \* 'gemini-pro'

M_mixed ==
    <<"G","e","m","i","n","i","-","v","s","-","C","l","a","u","d","e">>   \* 'Gemini-vs-Claude'

Vocabulary ==
    { W_How, W_code_q, W_technical, W_Write, W_example, W_must, W_qqq, W_what_q }

PadWords ==
    { W_lorem, W_to }

SeqsUpTo(S, n) ==
    UNION { [1..k -> S] : k \in 0..n }

\* " ".join(words)
RECURSIVE Join(_)
Join(words) ==
    IF Len(words) = 0 THEN <<>>
    ELSE IF Len(words) = 1 THEN words[1]
    ELSE words[1] \o <<" ">> \o Join(Tail(words))

\* prompts of up to MaxHead vocabulary words
HeadPrompts ==
    { Join(h) : h \in SeqsUpTo(Vocabulary, MaxHead) }

\* prompts of at most one vocabulary word followed by k padding words
PaddedPrompts ==
    { Join(h \o [i \in 1..k |-> w]) :
        h \in { <<>>, <<W_what_q>>, <<W_must>>, <<W_How>>,
                <<W_Write, W_example, W_must, W_How, W_qqq>> },
        k \in 0..MaxPad, w \in PadWords }

KeyPrompts ==
    { <<>>, P_binary_search, P_messy, Join(<<W_How, W_Write, W_code_q, W_qqq>>),
      Join(<<W_what_q, W_technical>>) }

\* the nine recognized rule names and one that is not recognized
RuleNames ==
    { "expert_system", "chain_of_thought", "few_shot", "role_play", "structured_output",
      "model_optimize", "enhance_clarity", "add_testing", "auto_optimize", "unknown_rule" }

RuleLists ==
    SeqsUpTo(RuleNames, MaxRules)

\* the rule argument: omitted, or a list
BasicRuleArgs ==
    { None, Some(<<>>), Some(<<"auto_optimize">>),
      Some(<< "add_testing", "enhance_clarity", "model_optimize", "structured_output",
              "role_play", "few_shot", "chain_of_thought", "expert_system" >>) }

\* the model argument: omitted, or a name
ModelArgs ==
    { None, Some(M_gpt), Some(M_mixed) }

Inputs ==
    { [prompt |-> p, rules |-> r, model |-> None] : p \in HeadPrompts \union PaddedPrompts, r \in BasicRuleArgs }
    \union
    { [prompt |-> p, rules |-> Some(r), model |-> m] : p \in KeyPrompts, r \in RuleLists, m \in ModelArgs }

\* the call apply_engineering_rules(raw_prompt, rules, target_model) of the MCP engine
McpCall(in) ==
    [ engine |-> "mcp", raw_prompt |-> in.prompt, rules |-> in.rules, target_model |-> in.model ]

\* the request of the HTTP engine: config and its keys are there when given
HttpConfig(in) ==
    (IF in.rules = None THEN EmptyDict ELSE [apply_rules |-> in.rules.val])
    @@ (IF in.model = None THEN EmptyDict ELSE [model |-> in.model.val])

HttpCall(in) ==
    [ engine |-> "http",
      request_data |->
          IF in.rules = None /\ in.model = None
          THEN [raw_prompt |-> in.prompt]
          ELSE [request_id |-> "req-1", raw_prompt |-> in.prompt, config |-> HttpConfig(in)] ]

\* ------------------------------------------------------------------------
\* State
\* ------------------------------------------------------------------------

VARIABLES
    call,               \* the call being served: the engine and its arguments
    pc,                 \* the statement of apply_engineering_rules to run next
    raw_prompt,         \* locals of apply_engineering_rules
    rules,              \* `rules` (MCP) / `apply_rules` (HTTP)
    config,             \* `config` (HTTP)
    target_model,
    analysis,
    engineered_prompt,
    rules_applied,
    result,             \* the returned dict
    request,            \* the request a boundary handler is serving (None: a direct call)
    response,           \* the handler's answer
    returned,           \* what each earlier call of this process returned
    other               \* the frame of the other call in progress (None: there is none)

vars ==
    << call, pc, raw_prompt, rules, config, target_model, analysis,
       engineered_prompt, rules_applied, result, request, response, returned,
       other >>

\* what the engine's statements never touch
outside ==
    << request, response, returned, other >>

Init ==
    /\ \E in \in Inputs : call \in { McpCall(in), HttpCall(in) }
    /\ pc = "enter"
    /\ raw_prompt = <<>>
    /\ rules = <<>>
    /\ config = EmptyDict
    /\ target_model = <<>>
    /\ analysis = None
    /\ engineered_prompt = <<>>
    /\ rules_applied = <<>>
    /\ result = None
    /\ request = None
    /\ response = None
    /\ returned = EmptyDict
    /\ other = None

\* variant: the name is recorded twice
record_rule_twice(applied, name) ==
    applied \o <<name, name>>

\* variant: rules_applied.insert(0, name)
record_rule_front(applied, name) ==
    <<name>> \o applied

\* rules_applied.append(name)
record_rule(applied, name) ==
    Append(applied, name)

\* one rule of the pipeline: where the gate passes, a lookup that finds something
\* (or no lookup) changes the text and records the name
RuleStep(here, next, name, gate, found, text) ==
    /\ pc = here
    /\ pc' = next
    /\ IF gate /\ found
       THEN /\ engineered_prompt' = text
            /\ rules_applied' = record_rule(rules_applied, name)
       ELSE UNCHANGED << engineered_prompt, rules_applied >>
    /\ UNCHANGED << call, raw_prompt, rules, config, target_model, analysis, result, outside >>

\* ------------------------------------------------------------------------
\* MCP engine: apply_engineering_rules, statement by statement
\* ------------------------------------------------------------------------

\* variant: `if not rules:`, an empty list is defaulted too
mcp_default_rules_if_falsy(rules_arg) ==
    IF rules_arg = None \/ rules_arg.val = <<>> THEN <<"auto_optimize">> ELSE rules_arg.val

\* `rules: list = None` ... `if rules is None: rules = ['auto_optimize']`
mcp_default_rules(rules_arg) ==
    IF rules_arg = None THEN <<"auto_optimize">> ELSE rules_arg.val

\* variant: the result always names the default model
mcp_default_model_general(model_arg) ==
    M_general

\* `target_model: str = "general"`
mcp_default_model(model_arg) ==
    IF model_arg = None THEN M_general ELSE model_arg.val

\* variant: rules_applied is a module-level list, never cleared
McpEnterKeepsApplied ==
    /\ pc = "enter"
    /\ call.engine = "mcp"
    /\ rules' = mcp_default_rules(call.rules)
    /\ target_model' = mcp_default_model(call.target_model)
    /\ raw_prompt' = call.raw_prompt
    /\ analysis' = analyze_prompt_structure(call.raw_prompt)
    /\ engineered_prompt' = call.raw_prompt
    /\ rules_applied' = rules_applied
    /\ pc' = "expert_system"
    /\ UNCHANGED << call, config, result, outside >>

McpEnter ==
    /\ pc = "enter"
    /\ call.engine = "mcp"
    /\ rules' = mcp_default_rules(call.rules)
    /\ target_model' = mcp_default_model(call.target_model)
    /\ raw_prompt' = call.raw_prompt
    /\ analysis' = analyze_prompt_structure(call.raw_prompt)
    /\ engineered_prompt' = call.raw_prompt
    /\ rules_applied' = <<>>
    /\ pc' = "expert_system"
    /\ UNCHANGED << call, config, result, outside >>

McpExpertSystem ==
    /\ call.engine = "mcp"
    /\ RuleStep("expert_system", "chain_of_thought", "expert_system",
                mcp_gate_expert_system(rules, analysis), TRUE,
                text_expert_system(engineered_prompt))

McpChainOfThought ==
    /\ call.engine = "mcp"
    /\ RuleStep("chain_of_thought", "few_shot", "chain_of_thought",
                mcp_gate_chain_of_thought(rules, analysis), TRUE,
                text_chain_of_thought(engineered_prompt))

McpFewShot ==
    /\ call.engine = "mcp"
    /\ LET few_shot_examples == generate_few_shot_examples(raw_prompt)
       IN  RuleStep("few_shot", "role_play", "few_shot",
                    mcp_gate_few_shot(rules, analysis), Truthy(few_shot_examples),
                    text_few_shot(engineered_prompt, few_shot_examples.val))

\* variant: the role is looked up in the text accumulated so far
McpRolePlayAccumulated ==
    /\ call.engine = "mcp"
    /\ LET role_context == determine_expert_role(engineered_prompt)
       IN  RuleStep("role_play", "structured_output", "role_play",
                    mcp_gate_role_play(rules, analysis), Truthy(role_context),
                    text_role_play(engineered_prompt, role_context.val))

McpRolePlay ==
    /\ call.engine = "mcp"
    /\ LET role_context == determine_expert_role(raw_prompt)
       IN  RuleStep("role_play", "structured_output", "role_play",
                    mcp_gate_role_play(rules, analysis), Truthy(role_context),
                    text_role_play(engineered_prompt, role_context.val))

McpStructuredOutput ==
    /\ call.engine = "mcp"
    /\ RuleStep("structured_output", "model_optimize", "structured_output",
                mcp_gate_structured_output(rules, analysis), TRUE,
                text_structured_output(engineered_prompt))

McpModelOptimize ==
    /\ call.engine = "mcp"
    /\ LET model_optimization == apply_model_specific_rules(engineered_prompt, target_model)
       IN  RuleStep("model_optimize", "enhance_clarity", "model_optimize",
                    mcp_gate_model_optimize(rules, analysis), Truthy(model_optimization),
                    text_model_optimize(engineered_prompt, model_optimization.val))

McpEnhanceClarity ==
    /\ call.engine = "mcp"
    /\ RuleStep("enhance_clarity", "add_testing", "enhance_clarity",
                mcp_gate_enhance_clarity(rules, analysis), TRUE,
                text_enhance_clarity(engineered_prompt))

McpAddTesting ==
    /\ call.engine = "mcp"
    /\ RuleStep("add_testing", "return", "add_testing",
                mcp_gate_add_testing(rules, analysis), TRUE,
                text_add_testing(engineered_prompt))

McpReturn ==
    /\ pc = "return"
    /\ call.engine = "mcp"
    /\ result' = [ engineered_prompt  |-> engineered_prompt,
                   original_prompt    |-> raw_prompt,
                   analysis           |-> analysis,
                   rules_applied      |-> rules_applied,
                   recommendations    |-> generate_recommendations(analysis, raw_prompt, rules),
                   optimization_score |-> calculate_optimization_score(analysis, rules_applied),
                   target_model       |-> target_model ]
    /\ pc' = "done"
    /\ UNCHANGED << call, raw_prompt, rules, config, target_model, analysis,
                    engineered_prompt, rules_applied, outside >>

\* ------------------------------------------------------------------------
\* HTTP engine: apply_engineering_rules, statement by statement
\* ------------------------------------------------------------------------

HttpEnter ==
    /\ pc = "enter"
    /\ call.engine = "http"
    /\ LET request_data == call.request_data
           cfg          == DictGet(request_data, "config", EmptyDict)
       IN  /\ raw_prompt' = DictGet(request_data, "raw_prompt", <<>>)
           /\ config' = cfg
           /\ rules' = DictGet(cfg, "apply_rules", <<>>)
           /\ target_model' = DictGet(cfg, "model", M_general)
           /\ engineered_prompt' = DictGet(request_data, "raw_prompt", <<>>)
           /\ analysis' = http_analyze_prompt_structure(DictGet(request_data, "raw_prompt", <<>>))
    /\ rules_applied' = <<>>
    /\ pc' = "expert_system"
    /\ UNCHANGED << call, result, outside >>

HttpExpertSystem ==
    /\ call.engine = "http"
    /\ RuleStep("expert_system", "chain_of_thought", "expert_system",
                http_gate_expert_system(rules, analysis), TRUE,
                http_text_expert_system(engineered_prompt))

HttpChainOfThought ==
    /\ call.engine = "http"
    /\ RuleStep("chain_of_thought", "few_shot", "chain_of_thought",
                http_gate_chain_of_thought(rules, analysis), TRUE,
                http_text_chain_of_thought(engineered_prompt))

HttpFewShot ==
    /\ call.engine = "http"
    /\ LET few_shot_examples == http_generate_few_shot_examples(raw_prompt)
       IN  RuleStep("few_shot", "role_play", "few_shot",
                    http_gate_few_shot(rules, analysis), Truthy(few_shot_examples),
                    http_text_few_shot(engineered_prompt, few_shot_examples.val))

HttpRolePlay ==
    /\ call.engine = "http"
    /\ LET role_context == http_determine_expert_role(raw_prompt)
       IN  RuleStep("role_play", "structured_output", "role_play",
                    http_gate_role_play(rules, analysis), Truthy(role_context),
                    http_text_role_play(engineered_prompt, role_context.val))

HttpStructuredOutput ==
    /\ call.engine = "http"
    /\ RuleStep("structured_output", "model_optimize", "structured_output",
                http_gate_structured_output(rules, analysis), TRUE,
                http_text_structured_output(engineered_prompt))

HttpModelOptimize ==
    /\ call.engine = "http"
    /\ LET model_optimization == http_apply_model_specific_rules(engineered_prompt, target_model)
       IN  RuleStep("model_optimize", "enhance_clarity", "model_optimize",
                    http_gate_model_optimize(rules, analysis), Truthy(model_optimization),
                    http_text_model_optimize(engineered_prompt, model_optimization.val))

HttpEnhanceClarity ==
    /\ call.engine = "http"
    /\ RuleStep("enhance_clarity", "add_testing", "enhance_clarity",
                http_gate_enhance_clarity(rules, analysis), TRUE,
                http_text_enhance_clarity(engineered_prompt))

HttpAddTesting ==
    /\ call.engine = "http"
    /\ RuleStep("add_testing", "return", "add_testing",
                http_gate_add_testing(rules, analysis), TRUE,
                http_text_add_testing(engineered_prompt))

HttpReturn ==
    /\ pc = "return"
    /\ call.engine = "http"
    /\ result' = [ request_id          |-> DictGet(call.request_data, "request_id", "unknown"),
                   engineered_prompt   |-> engineered_prompt,
                   original_prompt     |-> raw_prompt,
                   status              |-> "validation_success",
                   rules_applied       |-> rules_applied,
                   prompt_analysis     |-> analysis,
                   recommendations     |-> http_generate_recommendations(analysis, raw_prompt, config),
                   optimization_score  |-> http_calculate_optimization_score(analysis, rules_applied),
                   model_compatibility |-> assess_model_compatibility(engineered_prompt, target_model) ]
    /\ pc' = "done"
    /\ UNCHANGED << call, raw_prompt, rules, config, target_model, analysis,
                    engineered_prompt, rules_applied, outside >>

Next ==
    \/ McpEnter
    \/ McpExpertSystem
    \/ McpChainOfThought
    \/ McpFewShot
    \/ McpRolePlay
    \/ McpStructuredOutput
    \/ McpModelOptimize
    \/ McpEnhanceClarity
    \/ McpAddTesting
    \/ McpReturn
    \/ HttpEnter
    \/ HttpExpertSystem
    \/ HttpChainOfThought
    \/ HttpFewShot
    \/ HttpRolePlay
    \/ HttpStructuredOutput
    \/ HttpModelOptimize
    \/ HttpEnhanceClarity
    \/ HttpAddTesting
    \/ HttpReturn

Spec ==
    Init /\ [][Next]_vars

\* ------------------------------------------------------------------------
\* Boundaries: the MCP tool handlers and the HTTP endpoint
\* ------------------------------------------------------------------------

\* no call has been made into an engine
NoCall ==
    [ engine |-> "none" ]

\* variant: the handler returns an empty list
ToolTextNothing(text) ==
    [ content |-> << >> ]

\* the list [TextContent(type="text", text=...)] of a literal text, as the content
\* of the tool result
ToolText(text) ==
    [ content |-> << [type |-> "text", text |-> text, renders |-> None] >> ]

\* [TextContent(type="text", text=response)] of a formatted report: its heading
\* and the values the f-string renders
ToolReport(heading, values) ==
    [ content |-> << [type |-> "text", text |-> heading, renders |-> Some(values)] >> ]

\* variant: `if prompt is None:`, which the default "" of arguments.get never is
prompt_is_none(prompt) ==
    FALSE

\* `if not prompt:`
not_prompt(prompt) ==
    prompt = <<>>

\* the tools handle_list_tools lists, server by server
ListedTools(handler) ==
    CASE handler = "ai_validation_mcp" ->
             { "validate_prompt", "analyze_prompt_quality", "get_optimization_suggestions" }
      [] handler = "ai_validation_mcp_fixed" -> { "optimize_prompt", "analyze_prompt" }
      [] handler = "ai_validation_mcp_auto" -> { "auto_optimize", "optimize_prompt", "analyze_prompt" }

\* `if arguments is None: arguments = {}`
tool_arguments(arguments) ==
    IF arguments = None THEN EmptyDict ELSE arguments.val

\* the handler returns without calling anything
Answer(answer) ==
    /\ response' = answer
    /\ pc' = "responded"
    /\ UNCHANGED << call, raw_prompt, rules, config, target_model, analysis,
                    engineered_prompt, rules_applied, result, request, returned,
                    other >>

\* the handler returns after calling analyze_prompt_structure(prompt) itself
AnswerAnalysed(prompt, answer) ==
    /\ analysis' = analyze_prompt_structure(prompt)
    /\ response' = answer
    /\ pc' = "responded"
    /\ UNCHANGED << call, raw_prompt, rules, config, target_model,
                    engineered_prompt, rules_applied, result, request, returned,
                    other >>

\* the handler calls apply_engineering_rules
CallEngine(engine_call) ==
    /\ call' = engine_call
    /\ pc' = "enter"
    /\ UNCHANGED << raw_prompt, rules, config, target_model, analysis,
                    engineered_prompt, rules_applied, result, request, response, returned,
                    other >>

\* the suggestions of get_optimization_suggestions, in the order they are appended
optimization_suggestions(prompt, focus_area, a) ==
    LET on(area, due) ==
            IF (focus_area = "all" \/ focus_area = area) /\ due THEN << area >> ELSE << >>
        role == determine_expert_role(prompt)
        suggestions ==
            on("clarity", RatioLess(a.clarity_score, 7, 10))
            \o on("structure", a.needs_structure)
            \o on("examples", a.needs_examples)
            \o on("reasoning", a.needs_reasoning)
            \o on("expertise", a.needs_expertise /\ Truthy(role))
    IN  IF suggestions = << >> THEN << "great" >> ELSE suggestions

\* src/ai_validation_mcp.py: handle_call_tool, up to the call of the engine
HandleCallTool ==
    /\ pc = "request"
    /\ request.handler = "ai_validation_mcp"
    /\ LET arguments == tool_arguments(request.arguments)
           prompt    == DictGet(arguments, "prompt", <<>>)
           a         == analyze_prompt_structure(prompt)
       IN  CASE request.name = "validate_prompt" ->
                    IF not_prompt(prompt)
                    THEN Answer(ToolText("Error: No prompt provided"))
                    ELSE CallEngine([ engine       |-> "mcp",
                                      raw_prompt   |-> prompt,
                                      rules        |-> Some(DictGet(arguments, "rules", <<"auto_optimize">>)),
                                      target_model |-> Some(DictGet(arguments, "model", M_general)) ])
             [] request.name = "analyze_prompt_quality" ->
                    IF not_prompt(prompt)
                    THEN Answer(ToolText("Error: No prompt provided"))
                    ELSE AnswerAnalysed(prompt,
                             ToolReport("# Prompt Quality Analysis",
                                 [ analysis   |-> a,
                                   assessment |-> IF RatioLess([num |-> 8, den |-> 10], a.clarity_score.num, a.clarity_score.den)
                                                  THEN "Excellent"
                                                  ELSE IF RatioLess([num |-> 6, den |-> 10], a.clarity_score.num, a.clarity_score.den)
                                                       THEN "Good"
                                                       ELSE "Needs Improvement" ]))
             [] request.name = "get_optimization_suggestions" ->
                    IF not_prompt(prompt)
                    THEN Answer(ToolText("Error: No prompt provided"))
                    ELSE AnswerAnalysed(prompt,
                             ToolReport("# Optimization Suggestions",
                                 [ focus_area  |-> DictGet(arguments, "focus_area", "all"),
                                   suggestions |-> optimization_suggestions(
                                                       prompt, DictGet(arguments, "focus_area", "all"), a) ]))
             [] OTHER ->
                    Answer(ToolText("Error: Unknown tool '" \o request.name \o "'"))

\* src/ai_validation_mcp.py: handle_call_tool, from the engine's return: the report
HandleCallToolReturn ==
    /\ pc = "done"
    /\ request.handler = "ai_validation_mcp"
    /\ response' = ToolReport("# AI Validation Results", result)
    /\ pc' = "responded"
    /\ UNCHANGED << call, raw_prompt, rules, config, target_model, analysis,
                    engineered_prompt, rules_applied, result, request, returned,
                    other >>

\* src/ai_validation_mcp_fixed.py: handle_call_tool; the text of the optimizer is
\* not modelled, the calls the handler makes are recorded in `call`
FixedHandleCallTool ==
    /\ pc = "request"
    /\ request.handler = "ai_validation_mcp_fixed"
    /\ LET arguments == tool_arguments(request.arguments)
           prompt    == DictGet(arguments, "prompt", <<>>)
       IN  /\ IF request.name \in {"optimize_prompt", "analyze_prompt"} /\ ~not_prompt(prompt)
              THEN /\ call' = [ engine |-> "fixed",
                                calls  |-> IF request.name = "optimize_prompt"
                                           THEN << "apply_expert_optimization", "analyze_prompt_structure" >>
                                           ELSE << "analyze_prompt_structure" >>,
                                prompt |-> prompt ]
                   /\ analysis' = analyze_prompt_structure(prompt)
                   /\ response' = ToolReport(IF request.name = "optimize_prompt"
                                             THEN "# Optimized Prompt" ELSE "# Prompt Analysis",
                                             [ prompt |-> prompt, analysis |-> analysis' ])
              ELSE /\ response' = IF request.name \in {"optimize_prompt", "analyze_prompt"}
                                  THEN ToolText("Error: No prompt provided")
                                  ELSE ToolText("Unknown tool: " \o request.name)
                   /\ UNCHANGED << call, analysis >>
           /\ pc' = "responded"
           /\ UNCHANGED << raw_prompt, rules, config, target_model,
                           engineered_prompt, rules_applied, result, request, returned,
                    other >>

\* src/ai_validation_mcp_auto.py: handle_call_tool; the text of the optimizer is
\* not modelled, the calls the handler makes are recorded in `call`
AutoHandleCallTool ==
    /\ pc = "request"
    /\ request.handler = "ai_validation_mcp_auto"
    /\ LET arguments == tool_arguments(request.arguments)
           prompt    == DictGet(arguments, "prompt", <<>>)
           tools     == {"auto_optimize", "optimize_prompt", "analyze_prompt"}
       IN  /\ IF request.name \in tools /\ ~not_prompt(prompt)
              THEN /\ call' = [ engine |-> "auto",
                                calls  |-> CASE request.name = "auto_optimize" ->
                                                   << "create_expert_system_prompt", "optimize_user_prompt" >>
                                             [] request.name = "optimize_prompt" ->
                                                   << "optimize_user_prompt", "create_expert_system_prompt" >>
                                             [] OTHER -> << >>,
                                prompt |-> prompt ]
                   /\ response' = ToolReport(CASE request.name = "auto_optimize" -> "AI VALIDATION: PROMPT AUTOMATICALLY OPTIMIZED"
                                               [] request.name = "optimize_prompt" -> "# Manual Prompt Optimization"
                                               [] OTHER -> "# Prompt Analysis",
                                             [ prompt |-> prompt ])
              ELSE /\ response' = IF request.name \in tools
                                  THEN ToolText("Error: No prompt provided")
                                  ELSE ToolText("Unknown tool: " \o request.name)
                   /\ UNCHANGED call
           /\ pc' = "responded"
           /\ UNCHANGED << raw_prompt, rules, config, target_model, analysis,
                           engineered_prompt, rules_applied, result, request, returned,
                    other >>

\* tool names: those some server lists, and two that no server lists
ToolNames ==
    { "validate_prompt", "analyze_prompt_quality", "get_optimization_suggestions",
      "optimize_prompt", "analyze_prompt", "auto_optimize", "delete_everything", "" }

\* the arguments of a tool call: absent, without prompt, with an empty prompt, with a prompt
ToolArguments ==
    { None, Some(EmptyDict), Some([rules |-> <<"few_shot">>, model |-> M_gpt]),
      Some([prompt |-> <<>>]), Some([prompt |-> <<>>, rules |-> <<"expert_system">>]) }
    \union { Some([prompt |-> p]) : p \in KeyPrompts \ {<<>>} }
    \union { Some([prompt |-> P_binary_search, rules |-> r, model |-> M_claude]) :
                 r \in { <<>>, <<"role_play", "model_optimize">> } }
    \union { Some([prompt |-> p, focus_area |-> f]) :
                 p \in { P_messy, Join(<<W_what_q, W_technical>>) },
                 f \in { "all", "clarity", "expertise", "tone" } }

ToolRequests ==
    { [handler |-> h, name |-> n, arguments |-> a] :
        h \in { "ai_validation_mcp", "ai_validation_mcp_fixed", "ai_validation_mcp_auto" },
        n \in ToolNames, a \in ToolArguments }

\* a parsed JSON value, tagged with its JSON type: a record of one field, named
\* after the type
Json(type, val) ==
    [ t \in {type} |-> val ]

json_type(v) ==
    CHOOSE t \in DOMAIN v : TRUE

json_val(v) ==
    v[json_type(v)]

\* a request body that does not parse as JSON
Malformed ==
    [ malformed |-> TRUE ]

\* type(v).__name__ of the Python value get_json() returns
python_type(v) ==
    CASE json_type(v) = "null" -> "NoneType"
      [] json_type(v) = "boolean" -> "bool"
      [] json_type(v) = "number" -> "int"
      [] json_type(v) = "string" -> "str"
      [] json_type(v) = "array" -> "list"
      [] json_type(v) = "object" -> "dict"

\* `not request_data`
json_falsy(v) ==
    CASE json_type(v) = "null" -> TRUE
      [] json_type(v) = "boolean" -> ~json_val(v)
      [] json_type(v) = "number" -> json_val(v) = 0
      [] json_type(v) = "string" -> json_val(v) = <<>>
      [] json_type(v) = "array" -> json_val(v) = <<>>
      [] json_type(v) = "object" -> DOMAIN json_val(v) = {}

key_raw_prompt ==
    <<"r","a","w","_","p","r","o","m","p","t">>   \* 'raw_prompt'

\* variant: the test of 'raw_prompt' left out
json_has_raw_prompt_unchecked(v) ==
    Some(TRUE)

\* `'raw_prompt' in request_data`: a key of a dict, an element of a list, a
\* substring of a str; a TypeError for a number or a bool
json_has_raw_prompt(v) ==
    CASE json_type(v) = "object" -> Some("raw_prompt" \in DOMAIN json_val(v))
      [] json_type(v) = "array" ->
             Some(\E i \in 1..Len(json_val(v)) : json_type(json_val(v)[i]) = "string" /\ json_val(json_val(v)[i]) = key_raw_prompt)
      [] json_type(v) = "string" -> Some(Contains(key_raw_prompt, json_val(v)))
      [] OTHER -> None

no_attribute(v, attribute) ==
    "'" \o python_type(v) \o "' object has no attribute '" \o attribute \o "'"

\* str(e) of the first exception the engine raises on request_data, None when it
\* raises nothing: .get on a non-dict (src/mcp_server.py:47,50), len/.split of a
\* non-str prompt (188,189), `in` on a non-container apply_rules (63), .lower of a
\* non-str model (247, 310)
http_engine_fault(request_data) ==
    IF json_type(request_data) # "object" THEN Some(no_attribute(request_data, "get"))
    ELSE LET d           == json_val(request_data)
             cfg         == DictGet(d, "config", Json("object", EmptyDict))
             prompt      == DictGet(d, "raw_prompt", Json("string", <<>>))
             apply_rules == DictGet(json_val(cfg), "apply_rules", Json("array", <<>>))
             model       == DictGet(json_val(cfg), "model", Json("string", M_general))
         IN  IF json_type(cfg) # "object" THEN Some(no_attribute(cfg, "get"))
             ELSE IF json_type(prompt) \in {"null", "boolean", "number"}
                  THEN Some("object of type '" \o python_type(prompt) \o "' has no len()")
             ELSE IF json_type(prompt) # "string" THEN Some(no_attribute(prompt, "split"))
             ELSE IF json_type(apply_rules) \in {"null", "boolean", "number"}
                  THEN Some("argument of type '" \o python_type(apply_rules) \o "' is not iterable")
             ELSE IF json_type(model) # "string" THEN Some(no_attribute(model, "lower"))
             ELSE None

\* the dict the engine works on, for a request it raises nothing on
plain_request(request_data) ==
    LET plain_config(cfg) ==
            [ k \in DOMAIN json_val(cfg) |->
                IF k = "apply_rules"
                THEN [ i \in 1..Len(json_val(json_val(cfg)[k])) |-> json_val(json_val(json_val(cfg)[k])[i]) ]
                ELSE json_val(json_val(cfg)[k]) ]
    IN  [ k \in DOMAIN json_val(request_data) |->
            IF k = "config" THEN plain_config(json_val(request_data)[k])
            ELSE json_val(json_val(request_data)[k]) ]

\* variant: every error is answered with 400
HttpError400(status, error) ==
    [ status |-> 400, body |-> [error |-> error, status |-> "validation_failed"] ]

\* jsonify(...), status
HttpError(status, error) ==
    [ status |-> status, body |-> [error |-> error, status |-> "validation_failed"] ]

\* an exception is raised inside the try block
Raise(message) ==
    /\ result' = Some(message)
    /\ pc' = "raised"
    /\ UNCHANGED << call, raw_prompt, rules, config, target_model, analysis,
                    engineered_prompt, rules_applied, request, response, returned,
                    other >>

\* src/mcp_server.py: validate_prompt, the try block up to the call of the engine
HttpValidatePrompt ==
    /\ pc = "request"
    /\ request.handler = "validate_prompt"
    /\ IF request.content_type # "application/json"
       THEN Answer(HttpError(400, "Content-Type must be application/json"))
       ELSE IF request.body = Malformed
       THEN Raise("400 Bad Request: The browser (or proxy) sent a request that this server could not understand.")
       ELSE IF json_falsy(request.body)
       THEN Answer(HttpError(400, "Invalid JSON payload"))
       ELSE IF json_has_raw_prompt(request.body) = None
       THEN Raise("argument of type '" \o python_type(request.body) \o "' is not iterable")
       ELSE IF ~json_has_raw_prompt(request.body).val
       THEN Answer(HttpError(400, "Missing required field: raw_prompt"))
       ELSE IF http_engine_fault(request.body) = None
       THEN CallEngine([ engine |-> "http", request_data |-> plain_request(request.body) ])
       ELSE /\ call' = [ engine |-> "http", request_data |-> request.body ]
            /\ pc' = "raise"
            /\ UNCHANGED << raw_prompt, rules, config, target_model, analysis,
                            engineered_prompt, rules_applied, result, request, response, returned,
                    other >>

\* src/mcp_server.py: apply_engineering_rules raises on a value of the wrong type
HttpEngineRaise ==
    /\ pc = "raise"
    /\ call.engine = "http"
    /\ Raise(http_engine_fault(call.request_data).val)

\* src/mcp_server.py: validate_prompt, `except Exception as e:`
HttpExcept ==
    /\ pc = "raised"
    /\ request.handler = "validate_prompt"
    /\ response' = HttpError(500, "Server error: " \o result.val)
    /\ pc' = "responded"
    /\ UNCHANGED << call, raw_prompt, rules, config, target_model, analysis,
                    engineered_prompt, rules_applied, result, request, returned,
                    other >>

\* src/mcp_server.py: validate_prompt, `return jsonify(response), 200`
HttpRespond ==
    /\ pc = "done"
    /\ request.handler = "validate_prompt"
    /\ response' = [ status |-> 200, body |-> result ]
    /\ pc' = "responded"
    /\ UNCHANGED << call, raw_prompt, rules, config, target_model, analysis,
                    engineered_prompt, rules_applied, result, request, returned,
                    other >>

JsonString(s) ==
    Json("string", s)

JsonObject(d) ==
    Json("object", d)

\* JSON bodies that are not objects
JsonScalars ==
    { Json("null", "null"), Json("boolean", TRUE), Json("boolean", FALSE),
      Json("number", 0), Json("number", 5), JsonString(<<>>), JsonString(W_lorem),
      JsonString(key_raw_prompt), Json("array", <<>>), Json("array", <<Json("number", 5)>>),
      Json("array", <<JsonString(key_raw_prompt)>>) }

\* JSON objects without a raw_prompt field
JsonWithoutPrompt ==
    { JsonObject(EmptyDict),
      JsonObject([request_id |-> JsonString(W_lorem)]),
      JsonObject([prompt |-> JsonString(P_binary_search)]),
      JsonObject([config |-> JsonObject([model |-> JsonString(M_gpt)])]),
      JsonObject([request_id |-> JsonString(W_lorem), config |-> Json("number", 5)]) }

\* JSON objects with a raw_prompt field of the right types
JsonWellTyped ==
    { JsonObject([raw_prompt |-> JsonString(p)]) : p \in KeyPrompts }
    \union
    { JsonObject([request_id |-> JsonString(W_lorem), raw_prompt |-> JsonString(p), config |-> JsonObject(c)]) :
        p \in { <<>>, P_binary_search },
        c \in { EmptyDict,
                [model |-> JsonString(M_gpt)],
                [apply_rules |-> Json("array", <<JsonString("model_optimize"), JsonString("few_shot")>>),
                 model |-> JsonString(M_claude)] } }

\* JSON objects with a raw_prompt field and a value of the wrong type
JsonIllTyped ==
    { JsonObject([raw_prompt |-> v]) :
        v \in { Json("null", "null"), Json("number", 5), Json("boolean", FALSE),
                Json("array", <<JsonString(W_lorem)>>), JsonObject(EmptyDict) } }
    \union
    { JsonObject([raw_prompt |-> JsonString(P_binary_search), config |-> c]) :
        c \in { Json("null", "null"), JsonString(W_lorem), Json("array", <<>>),
                JsonObject([model |-> Json("number", 5)]),
                JsonObject([model |-> Json("null", "null")]),
                JsonObject([apply_rules |-> Json("number", 5)]),
                JsonObject([apply_rules |-> Json("null", "null"), model |-> Json("number", 5)]) } }

HttpRequests ==
    { [handler |-> "validate_prompt", content_type |-> t, body |-> b] :
        t \in { "application/json", "text/plain", "none" },
        b \in {Malformed} \union JsonScalars \union JsonWithoutPrompt
                  \union JsonWellTyped \union JsonIllTyped }

BoundaryInit ==
    /\ request \in ToolRequests \union HttpRequests
    /\ call = NoCall
    /\ pc = "request"
    /\ raw_prompt = <<>>
    /\ rules = <<>>
    /\ config = EmptyDict
    /\ target_model = <<>>
    /\ analysis = None
    /\ engineered_prompt = <<>>
    /\ rules_applied = <<>>
    /\ result = None
    /\ response = None
    /\ returned = EmptyDict
    /\ other = None

BoundaryNext ==
    \/ HandleCallTool
    \/ HandleCallToolReturn
    \/ FixedHandleCallTool
    \/ AutoHandleCallTool
    \/ HttpValidatePrompt
    \/ HttpEngineRaise
    \/ HttpExcept
    \/ HttpRespond
    \/ Next

BoundarySpec ==
    BoundaryInit /\ [][BoundaryNext]_vars

\* ------------------------------------------------------------------------
\* assess_model_compatibility on long prompts
\* ------------------------------------------------------------------------

\* engineered prompts are taken this many characters around each length limit
LengthMargin ==
    1

M_chatgpt ==
    <<"c","h","a","t","g","p","t">>   \* 'chatgpt'

M_claude_gpt ==
    <<"c","l","a","u","d","e","-","o","r","-","G","P","T">>   \* 'claude-or-GPT'

\* a text of n characters: words of five copies of c
LongText(n, c) ==
    [ i \in 1..n |-> IF i % 6 = 0 THEN " " ELSE c ]

\* the lengths around the limits of the GPT and the Claude branch, and two short ones
LongLengths ==
    {0, 35} \union ((8000 - LengthMargin)..(8000 + LengthMargin))
            \union ((10000 - LengthMargin)..(10000 + LengthMargin))

\* the calls assess_model_compatibility(engineered_prompt, target_model)
AssessCalls ==
    { [ engine |-> "assess", prompt |-> LongText(n, c), model |-> m ] :
        n \in LongLengths, c \in {"x", "?"},
        m \in { <<>>, M_general, M_gpt, M_chatgpt, M_claude, M_gemini, M_mixed, M_claude_gpt } }

\* the HTTP calls that carry a model name
CompatHttpCalls ==
    { HttpCall([prompt |-> p, rules |-> r, model |-> m]) :
        p \in KeyPrompts, r \in { None, Some(<<"model_optimize", "expert_system">>) },
        m \in { None, Some(M_gpt), Some(M_claude), Some(M_claude_gpt) } }

CompatInit ==
    /\ call \in AssessCalls \union CompatHttpCalls
    /\ pc = IF call.engine = "assess" THEN "assess" ELSE "enter"
    /\ raw_prompt = <<>>
    /\ rules = <<>>
    /\ config = EmptyDict
    /\ target_model = <<>>
    /\ analysis = None
    /\ engineered_prompt = <<>>
    /\ rules_applied = <<>>
    /\ result = None
    /\ request = None
    /\ response = None
    /\ returned = EmptyDict
    /\ other = None

\* the call of assess_model_compatibility in the return statement, on its own
AssessModelCompatibility ==
    /\ pc = "assess"
    /\ engineered_prompt' = call.prompt
    /\ target_model' = call.model
    /\ result' = [ model_compatibility |-> assess_model_compatibility(call.prompt, call.model) ]
    /\ pc' = "done"
    /\ UNCHANGED << call, raw_prompt, rules, config, analysis, rules_applied, outside >>

CompatNext ==
    \/ AssessModelCompatibility
    \/ HttpEnter
    \/ HttpExpertSystem
    \/ HttpChainOfThought
    \/ HttpFewShot
    \/ HttpRolePlay
    \/ HttpStructuredOutput
    \/ HttpModelOptimize
    \/ HttpEnhanceClarity
    \/ HttpAddTesting
    \/ HttpReturn

CompatSpec ==
    CompatInit /\ [][CompatNext]_vars

\* ------------------------------------------------------------------------
\* One process serving call after call
\* ------------------------------------------------------------------------

\* the calls a process serves, in any order and any number of times
SeqCalls ==
    LET ins == { [prompt |-> P_binary_search, rules |-> None, model |-> None],
                 [prompt |-> Join(<<W_what_q, W_technical>>),
                  rules |-> Some(<<"few_shot", "model_optimize">>), model |-> Some(M_gpt)],
                 [prompt |-> <<>>, rules |-> Some(<<>>), model |-> None] }
    IN  { McpCall(in) : in \in ins } \union { HttpCall(in) : in \in ins }

SeqInit ==
    /\ call \in SeqCalls
    /\ pc = "enter"
    /\ raw_prompt = <<>>
    /\ rules = <<>>
    /\ config = EmptyDict
    /\ target_model = <<>>
    /\ analysis = None
    /\ engineered_prompt = <<>>
    /\ rules_applied = <<>>
    /\ result = None
    /\ request = None
    /\ response = None
    /\ returned = EmptyDict
    /\ other = None

\* the call has returned and the next one comes in; what the finished call
\* returned is noted, and the variables keep what the finished call left in them
NextCall ==
    /\ pc = "done"
    /\ returned' = (call :> result) @@ returned
    /\ call' \in SeqCalls
    /\ pc' = "enter"
    /\ UNCHANGED << raw_prompt, rules, config, target_model, analysis,
                    engineered_prompt, rules_applied, result, request, response, other >>

SeqNext ==
    \/ NextCall
    \/ Next

SeqSpec ==
    SeqInit /\ [][SeqNext]_vars

\* ------------------------------------------------------------------------
\* Two calls in progress at once
\* ------------------------------------------------------------------------

\* the calls two threads of one process make, in any order and any number of times
ConcCalls ==
    LET auto  == [prompt |-> P_binary_search, rules |-> None, model |-> None]
        named == [prompt |-> Join(<<W_what_q, W_technical>>),
                  rules |-> Some(<<"few_shot", "model_optimize">>), model |-> Some(M_gpt)]
    IN  { McpCall(auto), McpCall(named), HttpCall(auto) }

\* the frame of a call of apply_engineering_rules: its arguments and its locals
Frame(c, at, prompt, rule_list, cfg, model, a, text, applied, res) ==
    [ call |-> c, pc |-> at, raw_prompt |-> prompt, rules |-> rule_list, config |-> cfg,
      target_model |-> model, analysis |-> a, engineered_prompt |-> text,
      rules_applied |-> applied, result |-> res ]

NewFrame(c) ==
    Frame(c, "enter", <<>>, <<>>, EmptyDict, <<>>, None, <<>>, <<>>, None)

ConcInit ==
    /\ call \in ConcCalls
    /\ pc = "enter"
    /\ raw_prompt = <<>>
    /\ rules = <<>>
    /\ config = EmptyDict
    /\ target_model = <<>>
    /\ analysis = None
    /\ engineered_prompt = <<>>
    /\ rules_applied = <<>>
    /\ result = None
    /\ request = None
    /\ response = None
    /\ returned = EmptyDict
    /\ \E c \in ConcCalls : other = NewFrame(c)

\* variant: rules_applied is one module-level list that both calls append to
SwitchSharedApplied ==
    /\ other # None
    /\ other' = Frame(call, pc, raw_prompt, rules, config, target_model, analysis,
                      engineered_prompt, rules_applied, result)
    /\ call' = other.call
    /\ pc' = other.pc
    /\ raw_prompt' = other.raw_prompt
    /\ rules' = other.rules
    /\ config' = other.config
    /\ target_model' = other.target_model
    /\ analysis' = other.analysis
    /\ engineered_prompt' = other.engineered_prompt
    /\ rules_applied' = rules_applied
    /\ result' = other.result
    /\ UNCHANGED << request, response, returned >>

\* the interpreter leaves the running call between two statements and resumes the
\* other one: every name the engine reads or writes is an argument or a local of
\* the call, so each call finds its own values again
Switch ==
    /\ other # None
    /\ other' = Frame(call, pc, raw_prompt, rules, config, target_model, analysis,
                      engineered_prompt, rules_applied, result)
    /\ call' = other.call
    /\ pc' = other.pc
    /\ raw_prompt' = other.raw_prompt
    /\ rules' = other.rules
    /\ config' = other.config
    /\ target_model' = other.target_model
    /\ analysis' = other.analysis
    /\ engineered_prompt' = other.engineered_prompt
    /\ rules_applied' = other.rules_applied
    /\ result' = other.result
    /\ UNCHANGED << request, response, returned >>

\* the running call has returned and its thread makes its next call, in a new frame
ConcNextCall ==
    /\ pc = "done"
    /\ returned' = (call :> result) @@ returned
    /\ call' \in ConcCalls
    /\ pc' = "enter"
    /\ raw_prompt' = <<>>
    /\ rules' = <<>>
    /\ config' = EmptyDict
    /\ target_model' = <<>>
    /\ analysis' = None
    /\ engineered_prompt' = <<>>
    /\ rules_applied' = <<>>
    /\ result' = None
    /\ UNCHANGED << request, response, other >>

ConcNext ==
    \/ Switch
    \/ ConcNextCall
    \/ Next

ConcSpec ==
    ConcInit /\ [][ConcNext]_vars

\* ------------------------------------------------------------------------
\* A call followed by a related call
\* ------------------------------------------------------------------------

\* how many related calls follow the first call
MaxReruns ==
    1

\* the arguments of a call, whichever engine it is made to
CallInput(c) ==
    IF c.engine = "mcp"
    THEN [prompt |-> c.raw_prompt, rules |-> c.rules, model |-> c.target_model]
    ELSE LET cfg == DictGet(c.request_data, "config", EmptyDict)
         IN  [ prompt |-> c.request_data.raw_prompt,
               rules  |-> IF "apply_rules" \in DOMAIN cfg THEN Some(cfg.apply_rules) ELSE None,
               model  |-> IF "model" \in DOMAIN cfg THEN Some(cfg.model) ELSE None ]

MakeCall(engine, in) ==
    IF engine = "mcp" THEN McpCall(in) ELSE HttpCall(in)

\* the names the engines test for
RecognizedRules ==
    { ApplicationOrder[i] : i \in DOMAIN ApplicationOrder } \union {"auto_optimize"}

Recognized(name) ==
    name \in RecognizedRules

RerunRules ==
    { None, Some(<<>>), Some(<<"auto_optimize">>), Some(<<"expert_system">>),
      Some(<<"unknown_rule">>), Some(<<"expert_system", "unknown_rule">>),
      Some(<<"few_shot", "few_shot">>), Some(<<"unknown_rule", "structured_output">>),
      Some(<<"chain_of_thought", "auto_optimize", "chain_of_thought">>),
      Some(ApplicationOrder \o <<"unknown_rule", "expert_system">>) }

RerunInputs ==
    [ prompt : { <<>>, P_binary_search, P_messy, Join(<<W_what_q, W_technical>>),
                 Join(<<W_How, W_Write, W_code_q, W_qqq>>) },
      rules  : RerunRules,
      model  : { None, Some(M_gpt) } ]

RerunInit ==
    /\ \E in \in RerunInputs : call \in { McpCall(in), HttpCall(in) }
    /\ pc = "enter"
    /\ raw_prompt = <<>>
    /\ rules = <<>>
    /\ config = EmptyDict
    /\ target_model = <<>>
    /\ analysis = None
    /\ engineered_prompt = <<>>
    /\ rules_applied = <<>>
    /\ result = None
    /\ request = None
    /\ response = None
    /\ returned = EmptyDict
    /\ other = None

\* the caller makes the call `next` once the running call has returned
Rerun(next) ==
    /\ pc = "done"
    /\ Cardinality(DOMAIN returned) < MaxReruns
    /\ next # call
    /\ returned' = (call :> result) @@ returned
    /\ call' = next
    /\ pc' = "enter"
    /\ UNCHANGED << raw_prompt, rules, config, target_model, analysis,
                    engineered_prompt, rules_applied, result, request, response, other >>

\* the engineered prompt is passed back as the prompt, with the same rules and model
Feedback ==
    Rerun(MakeCall(call.engine,
                   [CallInput(call) EXCEPT !.prompt = result.engineered_prompt]))

\* the same call without the rule names no engine tests for
StripUnknown ==
    LET in == CallInput(call)
    IN  /\ in.rules # None
        /\ Rerun(MakeCall(call.engine,
                          [in EXCEPT !.rules = Some(SelectSeq(in.rules.val, Recognized))]))

\* the same prompt, rules and model passed to the other engine
OtherEngine ==
    Rerun(MakeCall(IF call.engine = "mcp" THEN "http" ELSE "mcp", CallInput(call)))

RerunNext ==
    \/ Feedback
    \/ StripUnknown
    \/ OtherEngine
    \/ Next

RerunSpec ==
    RerunInit /\ [][RerunNext]_vars

\* a single call of either engine, in which the interpreter goes on to the next
\* statement as long as there is one
TotalSpec ==
    RerunInit /\ [][Next]_vars /\ WF_vars(Next)

\* ------------------------------------------------------------------------
\* The keyword lookups on their own
\* ------------------------------------------------------------------------

\* every keyword of the example and the role lookup, and a word that is none
LookupWords ==
    UNION { { t[i] : i \in DOMAIN t } :
            t \in { few_shot_code_words, few_shot_write_words, software_words,
                    copywriter_words, analyst_words, designer_words, business_words } }
    \union { W_lorem, <<"D","E","B","U","G">> }

\* prompts of one word and of two words, in both orders
LookupPrompts ==
    LookupWords \union { a \o <<" ">> \o b : a, b \in LookupWords }

\* model names holding none, one, two or three of the model keywords
LookupModels ==
    { <<>>, M_general, M_gpt, M_claude, M_gemini, M_mixed, M_claude_gpt,
      M_gemini \o M_gpt, M_mixed \o M_gpt }

LookupCalls ==
    [ engine : {"lookup"}, prompt : LookupPrompts, model : LookupModels ]

LookupInit ==
    /\ call \in LookupCalls
    /\ pc = "enter"
    /\ raw_prompt = <<>>
    /\ rules = <<>>
    /\ config = EmptyDict
    /\ target_model = <<>>
    /\ analysis = None
    /\ engineered_prompt = <<>>
    /\ rules_applied = <<>>
    /\ result = None
    /\ request = None
    /\ response = None
    /\ returned = EmptyDict
    /\ other = None

\* the three lookups are called with the prompt and the model
Lookup ==
    /\ pc = "enter"
    /\ call.engine = "lookup"
    /\ result' = [ few_shot_examples |-> generate_few_shot_examples(call.prompt),
                   role_context      |-> determine_expert_role(call.prompt),
                   model_specific    |-> apply_model_specific_rules(call.prompt, call.model) ]
    /\ pc' = "done"
    /\ UNCHANGED << call, raw_prompt, rules, config, target_model, analysis,
                    engineered_prompt, rules_applied, outside >>

LookupSpec ==
    LookupInit /\ [][Lookup]_vars

\* ------------------------------------------------------------------------
\* Properties
\* ------------------------------------------------------------------------

McpDone ==
    pc = "done" /\ call.engine = "mcp"

HttpDone ==
    pc = "done" /\ call.engine = "http"

Applied(name) ==
    InList(name, result.rules_applied)

Requested(name) ==
    InList(name, rules)

\* C1: in the MCP engine, membership in rules_applied follows the gate table:
\* expert_system iff it or auto_optimize is requested; chain_of_thought,
\* structured_output and enhance_clarity iff requested or (auto_optimize and
\* needs_reasoning / needs_structure / clarity_score < 0.7); few_shot and role_play
\* iff (requested or (auto_optimize and needs_examples / needs_expertise)) and
\* the example / role lookup on the prompt is non-empty.
C1_GateTable ==
    McpDone =>
        LET a    == result.analysis
            auto == Requested("auto_optimize")
        IN  /\ Applied("expert_system") <=> (Requested("expert_system") \/ auto)
            /\ Applied("chain_of_thought")
                   <=> (Requested("chain_of_thought") \/ (auto /\ a.needs_reasoning))
            /\ Applied("structured_output")
                   <=> (Requested("structured_output") \/ (auto /\ a.needs_structure))
            /\ Applied("enhance_clarity")
                   <=> (Requested("enhance_clarity") \/ (auto /\ a.clarity_score.num * 10 < 7 * a.clarity_score.den))
            /\ Applied("few_shot")
                   <=> /\ Requested("few_shot") \/ (auto /\ a.needs_examples)
                       /\ generate_few_shot_examples(call.raw_prompt).val # <<>>
            /\ Applied("role_play")
                   <=> /\ Requested("role_play") \/ (auto /\ a.needs_expertise)
                       /\ determine_expert_role(call.raw_prompt).val # <<>>

\* a call with auto_optimize in which an analysis flag implies one rule
\* (chain_of_thought), another gate passes without a match (few_shot) and a third
\* flag is false (structured_output not applied)
C1_Witness ==
    /\ McpDone
    /\ Requested("auto_optimize")
    /\ ~Requested("chain_of_thought") /\ Applied("chain_of_thought")
    /\ result.analysis.needs_examples /\ ~Applied("few_shot")
    /\ ~result.analysis.needs_structure /\ ~Applied("structured_output")

\* C2: in the MCP engine an empty rule list gives rules_applied = [] and an
\* engineered prompt equal to the original prompt, whatever the prompt and model.
C2_EmptyRulesPassThrough ==
    (McpDone /\ call.rules = Some(<<>>)) =>
        /\ result.rules_applied = <<>>
        /\ result.engineered_prompt = call.raw_prompt
        /\ result.original_prompt = call.raw_prompt

\* an empty rule list with a prompt whose analysis raises flags
C2_Witness ==
    /\ McpDone
    /\ call.rules = Some(<<>>)
    /\ result.analysis.needs_reasoning
    /\ result.analysis.needs_examples
    /\ result.analysis.clarity_score.num * 10 < 7 * result.analysis.clarity_score.den
    /\ result.engineered_prompt = call.raw_prompt

\* the rule list a request carries: config.apply_rules, empty when absent
HttpRequestedRules ==
    DictGet(DictGet(call.request_data, "config", EmptyDict), "apply_rules", <<>>)

\* C3: in the HTTP engine a request whose config.apply_rules is empty or absent
\* gives rules_applied = [] and an engineered prompt equal to raw_prompt.
C3_HttpEmptyRulesPassThrough ==
    (HttpDone /\ HttpRequestedRules = <<>>) =>
        /\ result.rules_applied = <<>>
        /\ result.engineered_prompt = call.request_data.raw_prompt

\* a lookup result that is no match: "" (MCP) or None (HTTP)
NoMatch(v) ==
    v = None \/ v = Some(<<>>)

\* the step about to run is few_shot, role_play or model_optimize, its gate passes
\* and its lookup finds no match
FewShotNoMatch ==
    /\ pc = "few_shot"
    /\ IF call.engine = "mcp"
       THEN mcp_gate_few_shot(rules, analysis) /\ NoMatch(generate_few_shot_examples(raw_prompt))
       ELSE http_gate_few_shot(rules, analysis) /\ NoMatch(http_generate_few_shot_examples(raw_prompt))

RolePlayNoMatch ==
    /\ pc = "role_play"
    /\ IF call.engine = "mcp"
       THEN mcp_gate_role_play(rules, analysis) /\ NoMatch(determine_expert_role(raw_prompt))
       ELSE http_gate_role_play(rules, analysis) /\ NoMatch(http_determine_expert_role(raw_prompt))

ModelOptimizeNoMatch ==
    /\ pc = "model_optimize"
    /\ IF call.engine = "mcp"
       THEN /\ mcp_gate_model_optimize(rules, analysis)
            /\ NoMatch(apply_model_specific_rules(engineered_prompt, target_model))
       ELSE /\ http_gate_model_optimize(rules, analysis)
            /\ NoMatch(http_apply_model_specific_rules(engineered_prompt, target_model))

\* C4: when the gate of few_shot, role_play or model_optimize passes and its lookup
\* finds no match, the step leaves the accumulating text unchanged and does not
\* append its name to rules_applied, so the optimization score of the rules applied
\* so far is unchanged.
C4_NoMatchIsNoOp ==
    [][ (FewShotNoMatch \/ RolePlayNoMatch \/ ModelOptimizeNoMatch) =>
            /\ engineered_prompt' = engineered_prompt
            /\ rules_applied' = rules_applied
            /\ ~InList(pc, rules_applied')
            /\ calculate_optimization_score(analysis', rules_applied')
                   = calculate_optimization_score(analysis, rules_applied) ]_vars

\* a finished MCP call in which all three gates passed and all three lookups found
\* nothing, while other rules were applied
C4_Witness ==
    /\ McpDone
    /\ mcp_gate_few_shot(rules, analysis) /\ NoMatch(generate_few_shot_examples(raw_prompt))
    /\ mcp_gate_role_play(rules, analysis) /\ NoMatch(determine_expert_role(raw_prompt))
    /\ mcp_gate_model_optimize(rules, analysis)
    /\ NoMatch(apply_model_specific_rules(engineered_prompt, target_model))
    /\ ~Applied("few_shot") /\ ~Applied("role_play") /\ ~Applied("model_optimize")
    /\ Applied("expert_system")

\* the rule list the caller passed (none when the argument or the key is omitted)
CallerRules ==
    IF call.engine = "mcp"
    THEN IF call.rules = None THEN <<>> ELSE call.rules.val
    ELSE HttpRequestedRules

\* C5: model_optimize and add_testing are never implied by auto_optimize: a rule
\* of the two that the caller did not request is not in rules_applied, in both
\* engines and whatever the analysis flags.
C5_ExplicitOnly ==
    pc = "done" =>
        /\ ~InList("model_optimize", CallerRules) => ~Applied("model_optimize")
        /\ ~InList("add_testing", CallerRules) => ~Applied("add_testing")

\* auto_optimize is requested for a GPT model (the model lookup would match), the
\* analysis raises flags, and neither of the two rules is requested or applied
C5_Witness ==
    /\ pc = "done"
    /\ InList("auto_optimize", CallerRules)
    /\ ~InList("model_optimize", CallerRules) /\ ~InList("add_testing", CallerRules)
    /\ Contains(kw_gpt, Lower(target_model))
    /\ analysis.needs_reasoning /\ analysis.needs_structure
    /\ ~Applied("model_optimize") /\ ~Applied("add_testing")
    /\ Len(result.rules_applied) >= 5

\* position of a rule name in the fixed application order (0: not a rule of it)
OrderIndex(name) ==
    IF \E k \in 1..Len(ApplicationOrder) : ApplicationOrder[k] = name
    THEN CHOOSE k \in 1..Len(ApplicationOrder) : ApplicationOrder[k] = name
    ELSE 0

\* C6: rules_applied is a subsequence of expert_system, chain_of_thought, few_shot,
\* role_play, structured_output, model_optimize, enhance_clarity, add_testing,
\* whatever the order in which the caller listed the rules.
C6_FixedOrder ==
    /\ \A i \in 1..Len(rules_applied) : OrderIndex(rules_applied[i]) > 0
    /\ \A i, j \in 1..Len(rules_applied) :
           i < j => OrderIndex(rules_applied[i]) < OrderIndex(rules_applied[j])
    /\ pc = "done" => result.rules_applied = rules_applied

\* the caller listed the rules in the reverse of the application order
C6_Witness ==
    /\ pc = "done"
    /\ Len(CallerRules) = 8
    /\ CallerRules[1] = "add_testing" /\ CallerRules[8] = "expert_system"
    /\ Len(result.rules_applied) >= 6
    /\ result.rules_applied[1] = "expert_system"
    /\ result.rules_applied[Len(result.rules_applied)] = "add_testing"

\* the MCP engine served the empty prompt with the default rule set
EmptyPromptDefaultRules ==
    /\ McpDone
    /\ call.raw_prompt = <<>>
    /\ rules = <<"auto_optimize">>

\* C7 as stated: for the empty prompt with ['auto_optimize'], word_count = 0,
\* clarity_score = 0, every needs_* flag is false, no rule other than expert_system
\* is applied, and the score is at most 0.34.
C7_Original ==
    EmptyPromptDefaultRules =>
        /\ result.analysis.word_count = 0
        /\ result.analysis.clarity_score = Ratio(0, 1)
        /\ ~result.analysis.needs_reasoning /\ ~result.analysis.needs_examples
        /\ ~result.analysis.needs_expertise /\ ~result.analysis.needs_structure
        /\ \A i \in 1..Len(result.rules_applied) : result.rules_applied[i] = "expert_system"
        /\ result.optimization_score <= 34

\* C7 (amended): for the empty prompt with ['auto_optimize'], word_count = 0,
\* clarity_score = 0 and every needs_* flag is false; the rules applied are
\* expert_system and enhance_clarity (clarity_score 0 is below 0.7), and the score
\* is the base 0.3 plus 0.04 for each of the two, 0.38.
C7_EmptyPrompt ==
    EmptyPromptDefaultRules =>
        /\ result.analysis.word_count = 0
        /\ result.analysis.clarity_score = Ratio(0, 1)
        /\ ~result.analysis.needs_reasoning /\ ~result.analysis.needs_examples
        /\ ~result.analysis.needs_expertise /\ ~result.analysis.needs_structure
        /\ result.rules_applied = <<"expert_system", "enhance_clarity">>
        /\ result.optimization_score = 38

\* the empty prompt was served with the rule list omitted (defaulted)
C7_Witness ==
    /\ EmptyPromptDefaultRules
    /\ call.rules = None
    /\ result.engineered_prompt # <<>>

\* C8: optimization_score is 0.3 + 0.2 [has_clear_task] + 0.1 [has_context]
\* + 0.1 [has_examples] + 0.1 [has_constraints] + min(0.2, 0.04 * len(rules_applied)),
\* clamped to 1.0, and so lies in [0.3, 1.0] (in hundredths), in both engines.
C8_ScoreFormula ==
    pc = "done" =>
        LET a == analysis
            b(flag, points) == IF flag THEN points ELSE 0
            bonus == IF 4 * Len(result.rules_applied) < 20
                     THEN 4 * Len(result.rules_applied) ELSE 20
            sum == 30 + b(a.has_clear_task, 20) + b(a.has_context, 10)
                      + b(a.has_examples, 10) + b(a.has_constraints, 10) + bonus
        IN  /\ result.optimization_score = (IF sum > 100 THEN 100 ELSE sum)
            /\ result.optimization_score >= 30
            /\ result.optimization_score <= 100

\* every structure flag is set and more than five rules are applied: the rule
\* bonus is capped and the score is 1.0
C8_Witness ==
    /\ pc = "done"
    /\ analysis.has_clear_task /\ analysis.has_context
    /\ analysis.has_examples /\ analysis.has_constraints
    /\ Len(result.rules_applied) > 5
    /\ result.optimization_score = 100

\* the first n rules of the application order: a rules_applied of n entries
FirstRules(n) ==
    SubSeq(ApplicationOrder, 1, n)

\* C9: for a fixed analysis the score does not decrease with the number of rules
\* applied, and it is the same for every number of rules from five on.
C9_ScoreMonotone ==
    McpDone =>
        \A m, n \in 0..Len(ApplicationOrder) :
            m <= n =>
                /\ calculate_optimization_score(result.analysis, FirstRules(m))
                       <= calculate_optimization_score(result.analysis, FirstRules(n))
                /\ m >= 5 => calculate_optimization_score(result.analysis, FirstRules(m))
                                 = calculate_optimization_score(result.analysis, FirstRules(n))
                /\ Len(result.rules_applied) = n =>
                       calculate_optimization_score(result.analysis, FirstRules(m))
                           <= result.optimization_score

\* a call that applied more than five rules, with the score of exactly five, and
\* a higher score than with no rule
C9_Witness ==
    /\ McpDone
    /\ Len(result.rules_applied) > 5
    /\ result.optimization_score = calculate_optimization_score(result.analysis, FirstRules(5))
    /\ result.optimization_score > calculate_optimization_score(result.analysis, FirstRules(0))
    /\ result.optimization_score < 100

\* the advisories in their fixed order
AdvisoryOrder ==
    << rec_clarity, rec_examples, rec_constraints, rec_structured_output, rec_chain_of_thought >>

\* the condition of the k-th advisory, on an analysis and the requested rules
AdvisoryDue(k, a, requested) ==
    CASE k = 1 -> a.clarity_score.num * 10 < 5 * a.clarity_score.den
      [] k = 2 -> a.needs_examples /\ ~a.has_examples
      [] k = 3 -> a.word_count > 20 /\ ~a.has_constraints
      [] k = 4 -> a.needs_structure /\ ~InList("structured_output", requested)
      [] k = 5 -> a.needs_reasoning /\ ~InList("chain_of_thought", requested)

AdvisoryIndex(text) ==
    IF \E k \in 1..Len(AdvisoryOrder) : AdvisoryOrder[k] = text
    THEN CHOOSE k \in 1..Len(AdvisoryOrder) : AdvisoryOrder[k] = text
    ELSE 0

\* C10: the recommendations are exactly the advisories whose condition holds
\* (clarity_score < 0.5; needs_examples and not has_examples; word_count > 20 and
\* not has_constraints; needs_structure / needs_reasoning and structured_output /
\* chain_of_thought not requested), each once, in that order, in both engines.
C10_Recommendations ==
    pc = "done" =>
        LET recs == result.recommendations
        IN  /\ \A k \in 1..Len(AdvisoryOrder) :
                   InList(AdvisoryOrder[k], recs) <=> AdvisoryDue(k, analysis, CallerRules)
            /\ \A i \in 1..Len(recs) : AdvisoryIndex(recs[i]) > 0
            /\ \A i, j \in 1..Len(recs) :
                   i < j => AdvisoryIndex(recs[i]) < AdvisoryIndex(recs[j])

\* four advisories at once, the most that can hold together
C10_Witness ==
    /\ pc = "done"
    /\ Len(result.recommendations) = 4
    /\ result.recommendations[1] = rec_clarity
    /\ result.recommendations[4] = rec_chain_of_thought

\* the positions where a whitespace-delimited token of s starts
TokenStarts(s) ==
    { i \in 1..Len(s) : s[i] \notin Whitespace /\ (i = 1 \/ s[i - 1] \in Whitespace) }

\* the length of the token of s that starts at i
TokenLen(s, i) ==
    Cardinality({ j \in i..Len(s) : \A k \in i..j : s[k] \notin Whitespace })

\* the number of tokens of s longer than 3 characters
LongTokens(s) ==
    Cardinality({ i \in TokenStarts(s) : TokenLen(s, i) > 3 })

\* the MCP engine has analysed the prompt of the call
McpAnalysed ==
    call.engine = "mcp" /\ pc # "enter"

\* C11: clarity_score is min(1, long tokens / max(10, word_count)) with the long
\* tokens those of more than 3 characters; it lies in [0,1] and is exactly 0 for
\* the empty prompt.
C11_ClarityScore ==
    McpAnalysed =>
        LET c     == analysis.clarity_score
            words == Cardinality(TokenStarts(call.raw_prompt))
            long  == LongTokens(call.raw_prompt)
            den   == Max(10, words)
        IN  /\ c.den > 0
            /\ 0 <= c.num /\ c.num <= c.den
            /\ c.num * den = Min(den, long) * c.den
            /\ call.raw_prompt = <<>> => c.num = 0

\* the empty prompt, scored 0
C11_Witness ==
    /\ McpAnalysed
    /\ pc = "done"
    /\ call.raw_prompt = <<>>
    /\ result.analysis.clarity_score.num = 0

\* a prompt of more than ten tokens, all long: the score reaches 1
C11_WitnessFull ==
    /\ McpAnalysed
    /\ Cardinality(TokenStarts(call.raw_prompt)) > 10
    /\ analysis.clarity_score.num = analysis.clarity_score.den

\* C12: needs_examples is true iff the prompt holds at least one '?' and fewer
\* than 20 whitespace-delimited tokens; word_count and question_count are those
\* two counts.
C12_NeedsExamples ==
    McpAnalysed =>
        LET words     == Cardinality(TokenStarts(call.raw_prompt))
            questions == Cardinality({ i \in 1..Len(call.raw_prompt) : call.raw_prompt[i] = "?" })
        IN  /\ analysis.word_count = words
            /\ analysis.question_count = questions
            /\ analysis.needs_examples <=> (questions > 0 /\ words < 20)

\* a prompt of 19 words with one '?': needs_examples is true
C12_Witness ==
    /\ McpAnalysed
    /\ pc = "done"
    /\ result.analysis.word_count = 19
    /\ result.analysis.question_count = 1
    /\ result.analysis.needs_examples

\* a prompt of 20 words with one '?': needs_examples is false
C12_Witness20 ==
    /\ McpAnalysed
    /\ analysis.word_count = 20
    /\ analysis.question_count = 1
    /\ ~analysis.needs_examples

\* a boundary handler has answered
Responded ==
    pc = "responded"

BoundaryTypeOK ==
    Responded => response # None

\* the request is a tool call whose arguments are absent, lack 'prompt' or carry
\* an empty prompt
NoPromptGiven ==
    \/ request.arguments = None
    \/ "prompt" \notin DOMAIN request.arguments.val
    \/ request.arguments.val.prompt = <<>>

\* nothing has been called: neither an engine nor the analyzer
NothingInvoked ==
    /\ call = NoCall
    /\ analysis = None
    /\ result = None
    /\ pc \in {"request", "responded"}

\* the answer is one text item with this text
SingleText(text) ==
    /\ Len(response.content) = 1
    /\ response.content[1].type = "text"
    /\ response.content[1].text = text

\* C13: a call of validate_prompt, analyze_prompt_quality or
\* get_optimization_suggestions whose arguments are absent, lack 'prompt' or carry
\* an empty prompt returns 'Error: No prompt provided' and never invokes the
\* analyzer or the rule engine.
C13_NoPromptError ==
    ( /\ request.handler = "ai_validation_mcp"
      /\ request.name \in {"validate_prompt", "analyze_prompt_quality", "get_optimization_suggestions"}
      /\ NoPromptGiven )
    => /\ NothingInvoked
       /\ Responded => SingleText("Error: No prompt provided")

\* validate_prompt called with rules and a model but no prompt
C13_Witness ==
    /\ Responded
    /\ request.handler = "ai_validation_mcp"
    /\ request.name = "validate_prompt"
    /\ request.arguments # None
    /\ DOMAIN request.arguments.val = {"rules", "model"}
    /\ SingleText("Error: No prompt provided")
    /\ NothingInvoked

\* the request is a POST of a JSON body that parses
HttpJson ==
    /\ request.handler = "validate_prompt"
    /\ request.content_type = "application/json"
    /\ request.body # Malformed

\* the body is a JSON object, with or without the field
HttpObject(with_prompt) ==
    /\ HttpJson
    /\ json_type(request.body) = "object"
    /\ ("raw_prompt" \in DOMAIN json_val(request.body)) = with_prompt

\* the answer is an error body and nothing else, with this HTTP status
ErrorBody(status) ==
    /\ response.status = status
    /\ DOMAIN response.body = {"error", "status"}
    /\ response.body.status = "validation_failed"
    /\ response.body.error # ""

C15_EmptyRawPromptRejected ==
    ( /\ HttpObject(TRUE)
      /\ json_val(request.body).raw_prompt = Json("string", <<>>) )
    => /\ call = NoCall
       /\ Responded => response.status # 200

\* C16: a POST with a content type that is not JSON, or with a JSON content type
\* and a body that does not parse, is answered with HTTP 400.
C16_TransportFault400 ==
    ( /\ Responded
      /\ request.handler = "validate_prompt"
      /\ request.content_type # "application/json" \/ request.body = Malformed )
    => response.status = 400

\* C16, the half that holds: a content type that is not JSON is answered with 400
C16_WrongContentType400 ==
    ( /\ Responded
      /\ request.handler = "validate_prompt"
      /\ request.content_type # "application/json" )
    => ErrorBody(400) /\ NothingInvoked

\* the request passed the three checks of the endpoint
PassedBoundaryChecks ==
    /\ HttpJson
    /\ ~json_falsy(request.body)
    /\ json_has_raw_prompt(request.body) = Some(TRUE)

\* a JSON value is there and is not of this type
WrongType(d, key, type) ==
    key \in DOMAIN d /\ json_type(d[key]) # type

\* raw_prompt, config or config.model is of the wrong type
IllTyped ==
    LET d == json_val(request.body)
    IN  \/ WrongType(d, "raw_prompt", "string")
        \/ WrongType(d, "config", "object")
        \/ /\ "config" \in DOMAIN d
           /\ json_type(d.config) = "object"
           /\ WrongType(json_val(d.config), "model", "string")

\* C17: a fault raised while the endpoint processes a request that passed the
\* boundary checks is answered with HTTP 500 whose error body carries the fault
\* description and nothing of a result; a request with raw_prompt, config or
\* config.model of the wrong type raises such a fault; no exception leaves the
\* handler unanswered.
C17_FaultIs500 ==
    /\ (PassedBoundaryChecks /\ pc = "raised") => ENABLED HttpExcept
    /\ (PassedBoundaryChecks /\ Responded)
       => /\ response.status \in {200, 500}
          /\ response.status = 500
               => /\ ErrorBody(500)
                  /\ result # None
                  /\ result.val # ""
                  /\ response.body.error = "Server error: " \o result.val
          /\ (json_type(request.body) = "object" /\ IllTyped) => response.status = 500
          /\ response.status = 200 => response.body = result /\ result.status = "validation_success"

\* config.model is a number: the fault is raised by model.lower() and answered
C17_Witness ==
    /\ Responded
    /\ PassedBoundaryChecks
    /\ json_type(request.body) = "object"
    /\ WrongType(json_val(request.body), "config", "object") = FALSE
    /\ IllTyped
    /\ response.status = 500
    /\ response.body.error = "Server error: 'int' object has no attribute 'lower'"

\* the request is a tool call with a name the server does not list
UnknownTool ==
    /\ request.handler \in {"ai_validation_mcp", "ai_validation_mcp_fixed", "ai_validation_mcp_auto"}
    /\ request.name \notin ListedTools(request.handler)

\* C18: in each of the three MCP servers a tool call with a name the server does
\* not list returns a single text result saying the tool is unknown and naming
\* it, whatever the arguments, and invokes neither analyzer nor engine.
C18_UnknownTool ==
    UnknownTool
    => /\ NothingInvoked
       /\ Responded =>
              \/ SingleText("Error: Unknown tool '" \o request.name \o "'")
              \/ SingleText("Unknown tool: " \o request.name)

\* a tool of another server, called with a prompt, is unknown to this one
C18_Witness ==
    /\ Responded
    /\ request.handler = "ai_validation_mcp_fixed"
    /\ request.name = "auto_optimize"
    /\ request.arguments # None
    /\ ~NoPromptGiven
    /\ SingleText("Unknown tool: auto_optimize")
    /\ NothingInvoked

\* the model name contains this lower-case word, in any case
NameHas(word, name) ==
    \E i \in 0..(Len(name) - Len(word)) : \A j \in 1..Len(word) : LowerChar(name[i + j]) = word[j]

\* C19: the model_compatibility block is a function of the model name and the
\* length of the engineered prompt alone; its score is in [0,1], 0.8 unless the
\* name contains 'gpt' and the engineered prompt is longer than 8000 characters,
\* then 0.1 less; a Claude-family name with a prompt longer than 10000 characters
\* gets a note and the score 0.8.
C19_ModelCompatibility ==
    (pc = "done" /\ call.engine \in {"assess", "http"}) =>
        LET block  == result.model_compatibility
            n      == Len(engineered_prompt)
            gpt    == NameHas(<<"g","p","t">>, target_model)
            claude == NameHas(<<"c","l","a","u","d","e">>, target_model) /\ ~gpt
        IN  /\ 0 <= block.score /\ block.score <= 100
            /\ block.score = IF gpt /\ n > 8000 THEN 80 - 10 ELSE 80
            /\ block.notes =
                   IF gpt /\ n > 8000
                   THEN <<"Long prompt - consider breaking into smaller chunks">>
                   ELSE IF claude /\ n > 10000
                        THEN <<"Very long prompt - Claude handles this well">>
                        ELSE <<>>
            /\ block.optimizations =
                   IF gpt THEN <<"Well-suited for creative and analytical tasks">>
                   ELSE IF claude THEN <<"Excellent for detailed analysis and reasoning">>
                   ELSE <<>>

\* a GPT name and an engineered prompt of 8001 characters: the score is 0.7
C19_Witness ==
    /\ pc = "done"
    /\ call.engine = "assess"
    /\ target_model = M_gpt
    /\ Len(engineered_prompt) = 8001
    /\ result.model_compatibility.score = 70

\* a Claude name and an engineered prompt of 10001 characters: a note, the score 0.8
C19_WitnessClaude ==
    /\ pc = "done"
    /\ call.engine = "assess"
    /\ target_model = M_claude
    /\ Len(engineered_prompt) = 10001
    /\ result.model_compatibility.score = 80
    /\ Len(result.model_compatibility.notes) = 1

\* an HTTP response for a GPT model: the block of a short engineered prompt
C19_WitnessHttp ==
    /\ HttpDone
    /\ target_model = M_gpt
    /\ Len(result.engineered_prompt) > 800
    /\ result.model_compatibility.score = 80
    /\ Len(result.model_compatibility.optimizations) = 1

\* the fields of a result the claim names, for either engine
Outcome(r) ==
    [ analysis           |-> IF "analysis" \in DOMAIN r THEN r.analysis ELSE r.prompt_analysis,
      engineered_prompt  |-> r.engineered_prompt,
      rules_applied      |-> r.rules_applied,
      recommendations    |-> r.recommendations,
      optimization_score |-> r.optimization_score ]

\* C20: a call with the same (prompt, rules, target_model) as an earlier call of
\* the process returns the same analysis, engineered_prompt, rules_applied,
\* recommendations and optimization_score, whatever calls were served in between
\* and in whatever order.
C20_Deterministic ==
    (pc = "done" /\ call \in DOMAIN returned) => Outcome(result) = Outcome(returned[call])

\* a call repeated after at least two different calls, with rules applied
C20_Witness ==
    /\ pc = "done"
    /\ call \in DOMAIN returned
    /\ Cardinality(DOMAIN returned) >= 3
    /\ call.engine = "mcp"
    /\ Len(result.rules_applied) >= 2
    /\ Outcome(result) = Outcome(returned[call])

\* C21: whatever the interleaving of two calls in progress, a call that returns
\* returns what the same call returned before in this process, among them the
\* runs during which the other thread executed nothing
C21_NoInterference ==
    /\ (pc = "done" /\ call \in DOMAIN returned) => result = returned[call]
    /\ (other # None /\ other.pc = "done" /\ other.call \in DOMAIN returned)
          => other.result = returned[other.call]

\* a call returns while the other call, a different one, is between two of its rules
C21_Witness ==
    /\ pc = "done"
    /\ call \in DOMAIN returned
    /\ result = returned[call]
    /\ rules_applied # <<>>
    /\ other # None
    /\ other.call # call
    /\ other.pc \in {"few_shot", "role_play", "structured_output", "model_optimize"}
    /\ other.rules_applied # <<>>
    /\ other.rules_applied # rules_applied

\* the running call was made with the engineered prompt of the earlier call c as
\* its prompt, and with the rules and the model of c
FedBackFrom(c) ==
    /\ c \in DOMAIN returned
    /\ c.engine = call.engine
    /\ CallInput(c).rules = CallInput(call).rules
    /\ CallInput(c).model = CallInput(call).model
    /\ CallInput(call).prompt = returned[c].engineered_prompt

\* C22: when the rule list contains 'auto_optimize' or 'expert_system' the
\* engineered prompt is strictly longer than the prompt, so the engine applied to
\* its own engineered prompt with the same rules returns a different, longer text.
C22_NotIdempotent ==
    (pc = "done" /\ (InList("auto_optimize", rules) \/ InList("expert_system", rules))) =>
        /\ Len(result.engineered_prompt) > Len(CallInput(call).prompt)
        /\ \A c \in DOMAIN returned :
               FedBackFrom(c) =>
                   /\ result.engineered_prompt # returned[c].engineered_prompt
                   /\ Len(result.engineered_prompt) > Len(returned[c].engineered_prompt)

\* the MCP engine, called with ['auto_optimize'] on its own engineered prompt of
\* the binary-search question, has returned a longer text again
C22_Witness ==
    /\ McpDone
    /\ call.rules = Some(<<"auto_optimize">>)
    /\ \E c \in DOMAIN returned :
           /\ FedBackFrom(c)
           /\ c.raw_prompt = P_binary_search
           /\ Len(returned[c].engineered_prompt) > Len(P_binary_search)
           /\ Len(result.engineered_prompt) > Len(returned[c].engineered_prompt)

\* the three lookups have been made
LookedUp ==
    pc = "done" /\ call.engine = "lookup"

\* the text holds one of the keywords, whatever the case of its letters
Mentions(text, keywords) ==
    \E w \in keywords : \E i \in 1..Len(text) :
        i + Len(w) - 1 <= Len(text) /\ Lower(SubSeq(text, i, i + Len(w) - 1)) = w

\* the domains of the role lookup in their order of priority
RoleDomains ==
    << [ keywords |-> { <<"c","o","d","e">>, <<"p","r","o","g","r","a","m","m","i","n","g">>, <<"s","o","f","t","w","a","r","e">>, <<"d","e","b","u","g">> },
         role     |-> role_software_engineer ],
       [ keywords |-> { <<"w","r","i","t","e">>, <<"c","o","n","t","e","n","t">>, <<"m","a","r","k","e","t","i","n","g">>, <<"c","o","p","y">> },
         role     |-> role_copywriter ],
       [ keywords |-> { <<"a","n","a","l","y","z","e">>, <<"d","a","t","a">>, <<"r","e","s","e","a","r","c","h">> },
         role     |-> role_data_analyst ],
       [ keywords |-> { <<"d","e","s","i","g","n">>, <<"u","i">>, <<"u","x">>, <<"i","n","t","e","r","f","a","c","e">> },
         role     |-> role_ux_designer ],
       [ keywords |-> { <<"b","u","s","i","n","e","s","s">>, <<"s","t","r","a","t","e","g","y">>, <<"p","l","a","n">> },
         role     |-> role_business_consultant ] >>

ExampleDomains ==
    << [ keywords |-> { <<"c","o","d","e">>, <<"p","r","o","g","r","a","m","m","i","n","g">> }, examples |-> code_examples ],
       [ keywords |-> { <<"w","r","i","t","e">>, <<"c","o","n","t","e","n","t">> }, examples |-> write_examples ] >>

ModelNotes ==
    << [ keywords |-> { <<"g","p","t">> }, note |-> note_gpt ],
       [ keywords |-> { <<"c","l","a","u","d","e">> }, note |-> note_claude ],
       [ keywords |-> { <<"g","e","m","i","n","i">> }, note |-> note_gemini ] >>

\* the entries of a priority list that the text matches
Matching(text, domains) ==
    { i \in DOMAIN domains : Mentions(text, domains[i].keywords) }

\* C23: each lookup answers with the first entry, in its fixed order, that has a
\* keyword in the prompt (the model name for the note): software engineer,
\* copywriter, data analyst, UX designer, business consultant; code/programming
\* examples before write/content examples; gpt before claude before gemini; and
\* the empty string when no entry matches.
C23_LookupPriority ==
    LookedUp =>
        /\ LET m == Matching(call.prompt, RoleDomains)
           IN  result.role_context =
                   Some(IF m = {} THEN <<>>
                        ELSE RoleDomains[CHOOSE i \in m : \A j \in m : i <= j].role)
        /\ LET m == Matching(call.prompt, ExampleDomains)
           IN  result.few_shot_examples =
                   Some(IF m = {} THEN <<>>
                        ELSE ExampleDomains[CHOOSE i \in m : \A j \in m : i <= j].examples)
        /\ LET m == Matching(call.model, ModelNotes)
           IN  result.model_specific =
                   Some(IF m = {} THEN <<>>
                        ELSE ModelNotes[CHOOSE i \in m : \A j \in m : i <= j].note)

\* a prompt that names content before programming and a model name that names
\* gemini before claude: the earlier entry of each list wins, not the earlier word
C23_Witness ==
    /\ LookedUp
    /\ Len(call.prompt) > 7
    /\ Mentions(SubSeq(call.prompt, 1, 7), RoleDomains[2].keywords)
    /\ Matching(call.prompt, RoleDomains) = {1, 2}
    /\ Matching(call.prompt, ExampleDomains) = {1, 2}
    /\ Matching(call.model, ModelNotes) = {2, 3}
    /\ result.role_context = Some(role_software_engineer)
    /\ result.few_shot_examples = Some(code_examples)
    /\ result.model_specific = Some(note_claude)

\* a prompt of a business and a design keyword, a model name with all three keywords
C23_WitnessLater ==
    /\ LookedUp
    /\ Matching(call.prompt, RoleDomains) = {4, 5}
    /\ Matching(call.model, ModelNotes) = {1, 2, 3}
    /\ result.role_context = Some(role_ux_designer)
    /\ result.model_specific = Some(note_gpt)

\* nothing matches: a word that is no keyword, a model name without a model keyword
C23_WitnessNoMatch ==
    /\ LookedUp
    /\ Matching(call.prompt, RoleDomains) = {}
    /\ Matching(call.prompt, ExampleDomains) = {}
    /\ Matching(call.model, ModelNotes) = {}
    /\ result.role_context = Some(<<>>)
    /\ result.few_shot_examples = Some(<<>>)
    /\ result.model_specific = Some(<<>>)

\* the MCP engine has served 'How do I implement a binary search?' with
\* ['auto_optimize'] and the model 'general'
BinarySearchDone ==
    /\ McpDone
    /\ call.raw_prompt = P_binary_search
    /\ call.rules = Some(<<"auto_optimize">>)
    /\ result.target_model = M_general

\* C24: for 'How do I implement a binary search?' with ['auto_optimize'] and model
\* 'general', needs_reasoning and needs_examples are true and has_clear_task is
\* false; expert_system and then chain_of_thought are applied; few_shot is not
\* applied although its gate passes, because no example domain matches, and
\* role_play is not applied because no role keyword matches.
C24_BinarySearch ==
    BinarySearchDone =>
        /\ result.analysis.needs_reasoning
        /\ result.analysis.needs_examples
        /\ ~result.analysis.has_clear_task
        /\ Len(result.rules_applied) >= 2
        /\ SubSeq(result.rules_applied, 1, 2) = <<"expert_system", "chain_of_thought">>
        /\ ~Applied("few_shot")
        /\ mcp_gate_few_shot(rules, result.analysis)
        /\ Matching(call.raw_prompt, ExampleDomains) = {}
        /\ ~Applied("role_play")
        /\ Matching(call.raw_prompt, RoleDomains) = {}

\* the scenario has run; besides the two rules, enhance_clarity was applied
C24_Witness ==
    /\ BinarySearchDone
    /\ result.rules_applied = <<"expert_system", "chain_of_thought", "enhance_clarity">>
    /\ result.analysis.needs_reasoning
    /\ ~result.analysis.has_clear_task

ResultFields ==
    { "engineered_prompt", "original_prompt", "analysis", "rules_applied",
      "recommendations", "optimization_score", "target_model" }

\* C25: the MCP engine is total: whatever the prompt (the empty one included),
\* the rule list (omitted, empty, repeated and unrecognized names included) and
\* the model, a call that is entered returns, and what it returns is a record of
\* exactly the seven fields whose original_prompt is the prompt passed and whose
\* target_model is the model passed ('general' when it is omitted).
C25_Total ==
    /\ (call.engine = "mcp" /\ pc = "enter") ~> McpDone
    /\ [](McpDone =>
             /\ DOMAIN result = ResultFields
             /\ result.original_prompt = call.raw_prompt
             /\ result.target_model =
                    (IF call.target_model = None THEN M_general ELSE call.target_model.val))

\* the empty prompt with an unrecognized rule name and the model 'GPT-4' has been
\* served
C25_Witness ==
    /\ McpDone
    /\ call.raw_prompt = <<>>
    /\ call.rules = Some(<<"unknown_rule">>)
    /\ call.target_model = Some(M_gpt)
    /\ DOMAIN result = ResultFields
    /\ result.target_model = M_gpt
    /\ result.original_prompt = <<>>

\* the prompt the caller passed, and what each engine derives from a prompt
PromptPassed ==
    CallInput(call).prompt

AnalysisOf(prompt) ==
    IF call.engine = "mcp" THEN analyze_prompt_structure(prompt)
    ELSE http_analyze_prompt_structure(prompt)

ExamplesOf(prompt) ==
    IF call.engine = "mcp" THEN generate_few_shot_examples(prompt)
    ELSE http_generate_few_shot_examples(prompt)

RoleOf(prompt) ==
    IF call.engine = "mcp" THEN determine_expert_role(prompt)
    ELSE http_determine_expert_role(prompt)

GatePasses(name, a) ==
    IF call.engine = "mcp"
    THEN IF name = "few_shot" THEN mcp_gate_few_shot(rules, a) ELSE mcp_gate_role_play(rules, a)
    ELSE IF name = "few_shot" THEN http_gate_few_shot(rules, a) ELSE http_gate_role_play(rules, a)

\* C26: in both engines the analysis, the example lookup and the role lookup read
\* the prompt the caller passed, never the accumulated text: whatever rules were
\* applied before, the analysis of a call that returns is that of the prompt
\* passed, few_shot and role_play are applied exactly when their gate passes on
\* that analysis and the lookup on the prompt passed finds something, and the
\* text they insert is the one found for that prompt.
C26_ReadsRawPrompt ==
    /\ (call.engine \in {"mcp", "http"} /\ pc # "enter") => raw_prompt = PromptPassed
    /\ (McpDone \/ HttpDone) =>
           LET a        == AnalysisOf(PromptPassed)
               examples == ExamplesOf(PromptPassed)
               role     == RoleOf(PromptPassed)
           IN  /\ analysis = a
               /\ (IF call.engine = "mcp" THEN result.analysis ELSE result.prompt_analysis) = a
               /\ Applied("few_shot") <=> (GatePasses("few_shot", a) /\ Truthy(examples))
               /\ Applied("few_shot") => Contains(examples.val, result.engineered_prompt)
               /\ Applied("role_play") <=> (GatePasses("role_play", a) /\ Truthy(role))
               /\ Applied("role_play") => Contains(role.val, result.engineered_prompt)

\* expert_system was applied first and its text would match a role and change
\* analysis flags, yet role_play, whose gate passes, finds no role in the prompt
C26_Witness ==
    /\ McpDone
    /\ Applied("expert_system")
    /\ InList("role_play", rules)
    /\ ~Applied("role_play")
    /\ RoleOf(PromptPassed) = Some(<<>>)
    /\ Truthy(RoleOf(text_expert_system(PromptPassed)))
    /\ ~result.analysis.has_clear_task
    /\ AnalysisOf(text_expert_system(PromptPassed)).has_clear_task

\* a call of either engine is past its first statement
InPipeline ==
    call.engine \in {"mcp", "http"} /\ pc # "enter"

\* one statement of the pipeline: a name is recorded exactly when the text
\* changes, and then the text gets strictly longer
RecordsWhatItChanges ==
    InPipeline =>
        /\ (rules_applied' # rules_applied) <=> (engineered_prompt' # engineered_prompt)
        /\ (rules_applied' # rules_applied) => Len(engineered_prompt') > Len(engineered_prompt)

\* C27: in both engines engineered_prompt equals original_prompt if and only if
\* rules_applied is empty: every rule that records its name strictly lengthens the
\* text, the original prompt stays a contiguous substring of the engineered
\* prompt, and no statement changes the text without recording a name.
C27_TextAndRules ==
    /\ [](InPipeline =>
             /\ (engineered_prompt = raw_prompt) <=> (rules_applied = <<>>)
             /\ Contains(raw_prompt, engineered_prompt)
             /\ Len(engineered_prompt) >= Len(raw_prompt) + Len(rules_applied))
    /\ []((McpDone \/ HttpDone) =>
             /\ result.original_prompt = PromptPassed
             /\ (result.engineered_prompt = result.original_prompt)
                    <=> (result.rules_applied = <<>>)
             /\ Contains(result.original_prompt, result.engineered_prompt))
    /\ [][RecordsWhatItChanges]_vars

\* role_play and expert_system were applied to a non-empty prompt, which is found
\* inside the engineered prompt and not at its beginning
C27_Witness ==
    /\ McpDone
    /\ Len(result.rules_applied) >= 2
    /\ Applied("role_play")
    /\ Applied("expert_system")
    /\ result.original_prompt # <<>>
    /\ Contains(result.original_prompt, result.engineered_prompt)
    /\ SubSeq(result.engineered_prompt, 1, Len(result.original_prompt)) # result.original_prompt

\* nothing was applied and the engineered prompt is the prompt, a non-empty one
C27_WitnessUnchanged ==
    /\ McpDone
    /\ result.rules_applied = <<>>
    /\ result.original_prompt # <<>>
    /\ result.engineered_prompt = result.original_prompt

\* the running call is the earlier call c without its unrecognized rule names,
\* of which c had at least one
StrippedFrom(c) ==
    /\ c \in DOMAIN returned
    /\ c.engine = call.engine
    /\ CallInput(c).rules # None
    /\ \E i \in 1..Len(CallInput(c).rules.val) : ~Recognized(CallInput(c).rules.val[i])
    /\ CallInput(call) =
           [CallInput(c) EXCEPT !.rules = Some(SelectSeq(CallInput(c).rules.val, Recognized))]

\* the caller's list names a rule twice
RepeatsAName(list) ==
    \E i, j \in 1..Len(list) : i # j /\ list[i] = list[j]

\* C28: rules_applied has no duplicate, holds only names of the eight
\* transformations (never 'auto_optimize' or an unrecognized name) and so at most
\* eight entries, also when the caller's list repeats names or holds unrecognized
\* ones; and a call returns the same engineered_prompt, rules_applied and score as
\* the same call with the unrecognized names in its list.
C28_RulesApplied ==
    pc = "done" =>
        /\ \A i, j \in 1..Len(result.rules_applied) :
               i # j => result.rules_applied[i] # result.rules_applied[j]
        /\ \A i \in 1..Len(result.rules_applied) :
               \E k \in 1..Len(ApplicationOrder) : result.rules_applied[i] = ApplicationOrder[k]
        /\ Len(result.rules_applied) <= 8
        /\ \A c \in DOMAIN returned :
               StrippedFrom(c) =>
                   /\ result.engineered_prompt = returned[c].engineered_prompt
                   /\ result.rules_applied = returned[c].rules_applied
                   /\ result.optimization_score = returned[c].optimization_score

\* the MCP engine was called with all eight names, an unrecognized name and a
\* repeated one, and then without the unrecognized name: eight rules both times
C28_Witness ==
    /\ McpDone
    /\ Len(result.rules_applied) = 8
    /\ RepeatsAName(call.rules.val)
    /\ \E c \in DOMAIN returned :
           /\ StrippedFrom(c)
           /\ RepeatsAName(c.rules.val)
           /\ returned[c].rules_applied = result.rules_applied
           /\ returned[c].engineered_prompt = result.engineered_prompt

\* a list of one unrecognized name, then the empty list: nothing applied either time
C28_WitnessOnlyUnknown ==
    /\ McpDone
    /\ call.rules = Some(<<>>)
    /\ result.rules_applied = <<>>
    /\ \E c \in DOMAIN returned :
           /\ StrippedFrom(c)
           /\ returned[c].rules_applied = <<>>
           /\ returned[c].engineered_prompt = c.raw_prompt

\* C29: the recommendations never advise enabling a rule that the same call
\* applied: with 'structured_output' in rules_applied the 'Enable
\* structured_output' advisory is absent, with 'chain_of_thought' in rules_applied
\* the 'Enable chain_of_thought' advisory is absent, also when the rule was
\* activated through auto_optimize.
C29_NoAdviceForApplied ==
    McpDone =>
        /\ Applied("structured_output") => ~InList(rec_structured_output, result.recommendations)
        /\ Applied("chain_of_thought") => ~InList(rec_chain_of_thought, result.recommendations)

\* the earlier call c passed the prompt, the rule list and the model of the running
\* call to the other engine
SameCallOtherEngine(c) ==
    /\ c \in DOMAIN returned
    /\ c.engine # call.engine
    /\ CallInput(c).rules # None
    /\ CallInput(c) = CallInput(call)

\* C30: the two engines agree: called with the same prompt, rule list and model,
\* the HTTP engine and the MCP engine return the same analysis, rules_applied,
\* recommendations and optimization_score.
C30_EnginesAgree ==
    pc = "done" =>
        \A c \in DOMAIN returned :
            SameCallOtherEngine(c) =>
                /\ Outcome(result).analysis = Outcome(returned[c]).analysis
                /\ result.rules_applied = returned[c].rules_applied
                /\ result.recommendations = returned[c].recommendations
                /\ result.optimization_score = returned[c].optimization_score

====
